---- MODULE Spec2Model ----
(***************************************************************************)
(* Credential and session lifecycle of the serverless API:                 *)
(*   src/utils/jwt.js        token codec                                   *)
(*   src/models/user.js      identity record and its methods               *)
(*   src/controllers/auth.js session manager (register, login, refresh,    *)
(*                           logout, changePassword, password reset)       *)
(*   src/authorizer.js       access decision function (Lambda authorizer)  *)
(*                                                                         *)
(* Time is counted in units of 5 minutes.  Date.now() and the seconds      *)
(* clock of jsonwebtoken are both read from the variable now, so two       *)
(* tokens signed at the same value of now carry the same iat, as two       *)
(* tokens signed within the same second do.                                *)
(* An optional field (undefined in the code) is a set: {} when unset,      *)
(* {v} when it holds v.                                                    *)
(* A handler is served either in one step (users, res) or, where requests  *)
(* overlap, one repository call at a time: flight holds each request in    *)
(* progress with the document it loaded, version the __v of each record.   *)
(***************************************************************************)
EXTENDS Integers, Sequences, FiniteSets, TLC

VARIABLES users, now, nonce, res, decision, revoked, req, prev, streak,
          flight, version

vars == <<users, now, nonce, res, decision, revoked, req, prev, streak,
          flight, version>>

(* ------------------------------ bounds -------------------------------- *)
MaxUsers == 2
MaxNonce == 2
MaxAttempts == 6
\* array writes per record before no further request is started
MaxVersion == 7

(* ------------------------- program constants -------------------------- *)
\* '15m' in units of 5 minutes
JWT_ACCESS_EXPIRES_IN == 3
\* '7d' in units of 5 minutes
JWT_REFRESH_EXPIRES_IN == 2016
\* 30 * 60 * 1000 ms in units of 5 minutes
LOCK_TIME == 6
\* 10 * 60 * 1000 ms in units of 5 minutes
RESET_TIME == 2
\* lock after this many failed attempts
MAX_LOGIN_ATTEMPTS == 5
\* refresh tokens kept per record
MAX_REFRESH_TOKENS == 5

JWT_SECRET == "access-secret"
\* mutant: one key for both domains
JWT_REFRESH_SECRET_shared == "access-secret"

JWT_REFRESH_SECRET == "refresh-secret"
ISSUER == "serverless-api"
AUDIENCE == "api-users"

\* the instants at which the clock is read: the start, the next instant, and
\* the instants at which an access token, a lock and a refresh token that
\* began at the start run out
Instants == {0, 1, JWT_ACCESS_EXPIRES_IN, LOCK_TIME, JWT_REFRESH_EXPIRES_IN}

Emails == {"a@x"}
\* the emails of the specification with two accounts
Accounts == {"a@x", "b@x"}
\* the ids of the records that can exist where only Emails register
Ids == 1..Cardinality(Emails)
\* the emails as callers type them, in either letter case
RawEmails == {"a@x", "A@x", "b@x", "B@x"}
\* the names every registration gives, and the one a profile update gives
FirstName == "Ada"
LastName == "Lovelace"
OtherName == "Grace"
Passwords == {"pw1", "pw2"}
Roles == {"user", "admin", "moderator"}
RoleInputs == {"omitted", "admin"}

(* ------------------- src/utils/jwt.js: token codec --------------------- *)
\* jwt.sign(payload, secret, {expiresIn, issuer, audience, subject}): the
\* token value is determined by the payload, the key, and the second of
\* signing; there is no random part (no jti).
jwtSign(payload, secret, expiresIn) ==
  [wf |-> TRUE, key |-> secret,
   userId |-> payload.userId, email |-> payload.email, role |-> payload.role,
   iat |-> now, exp |-> now + expiresIn,
   iss |-> ISSUER, aud |-> AUDIENCE, sub |-> payload.userId]

\* mutant: the token is decoded, not verified
jwtVerify_decodeOnly(token, secret) == token.wf

\* mutant: the signing key is not checked
jwtVerify_anyKey(token, secret) == token.wf /\ now < token.exp

\* mutant: the expiry is not checked
jwtVerify_ignoreExpiration(token, secret) ==
  token.wf /\ token.key = secret

\* jwt.verify(token, secret) with no options: well-formedness, signature and
\* expiry (expired when clock >= exp); issuer and audience are not compared.
jwtVerify(token, secret) ==
  token.wf /\ token.key = secret /\ now < token.exp

generateAccessToken(payload) == jwtSign(payload, JWT_SECRET, JWT_ACCESS_EXPIRES_IN)

generateRefreshToken(payload) == jwtSign(payload, JWT_REFRESH_SECRET, JWT_REFRESH_EXPIRES_IN)

generateTokenPair(payload) ==
  [accessToken |-> generateAccessToken(payload),
   refreshToken |-> generateRefreshToken(payload)]

verifyAccessToken(token) == jwtVerify(token, JWT_SECRET)

verifyRefreshToken(token) == jwtVerify(token, JWT_REFRESH_SECRET)

\* a string that is not a JWT
MalformedToken ==
  [wf |-> FALSE, key |-> "", userId |-> 0, email |-> "", role |-> "",
   iat |-> 0, exp |-> 0, iss |-> "", aud |-> "", sub |-> 0]

(* ----------------- src/models/user.js: identity record ----------------- *)
\* crypto.randomBytes(32).toString("hex"): the n-th value drawn; h counts the
\* applications of sha256 to it.
randomBytes(n) == [n |-> n, h |-> 0]

sha256(x) == [n |-> x.n, h |-> x.h + 1]

\* bcrypt.hash(password, salt)
bcryptHash(password) == <<"bcrypt", password>>

\* String.prototype.toLowerCase on the emails of the model
toLowerCase(s) ==
  CASE s = "A@x" -> "a@x"
    [] s = "B@x" -> "b@x"
    [] OTHER -> s

\* new User({email, password, firstName, lastName, role}) with the schema's
\* defaults; the email passes the lowercase setter, the password is hashed by
\* the pre-save hook on the first save.
newUser(email, password, role) ==
  [email |-> toLowerCase(email), password |-> bcryptHash(password), role |-> role,
   firstName |-> FirstName, lastName |-> LastName,
   isActive |-> TRUE, emailVerificationToken |-> {},
   passwordResetToken |-> {}, passwordResetExpires |-> {},
   lastLogin |-> {}, loginAttempts |-> 0, lockUntil |-> {},
   refreshTokens |-> <<>>]

\* mutant: no record is ever locked
isLocked_never(user) == FALSE

\* mutant: a lock never elapses
isLocked_ignoresClock(user) == user.lockUntil # {}

isLocked(user) == \E t \in user.lockUntil : t > now

\* pre("save"): a modified password is stored as its bcrypt hash
preSavePassword(user, password) == [user EXCEPT !.password = bcryptHash(password)]

\* mutant: every candidate password passes the comparison
comparePassword_always(user, candidatePassword) == user.password = user.password

comparePassword(user, candidatePassword) == bcryptHash(candidatePassword) = user.password

generateEmailVerificationToken(user, n) ==
  [user EXCEPT !.emailVerificationToken = {sha256(randomBytes(n))}]

generatePasswordResetToken(user, n) ==
  [user EXCEPT !.passwordResetToken = {sha256(randomBytes(n))},
               !.passwordResetExpires = {now + RESET_TIME}]

\* mutant: the list is never trimmed
addRefreshToken_noCap(user, token) ==
  [user EXCEPT !.refreshTokens = Append(user.refreshTokens, token)]

addRefreshToken(user, token) ==
  LET pushed == Append(user.refreshTokens, token)
  IN [user EXCEPT !.refreshTokens =
        IF Len(pushed) > MAX_REFRESH_TOKENS
        THEN SubSeq(pushed, Len(pushed) - MAX_REFRESH_TOKENS + 1, Len(pushed))
        ELSE pushed]

\* mutant: the filter keeps the named entry instead of dropping it
removeRefreshToken_inverted(user, token) ==
  [user EXCEPT !.refreshTokens = SelectSeq(user.refreshTokens, LAMBDA rt : rt = token)]

\* mutant: a token that is not in the list empties the list
removeRefreshToken_clearsWhenAbsent(user, token) ==
  [user EXCEPT !.refreshTokens =
     IF \E k \in 1..Len(@) : @[k] = token
     THEN SelectSeq(@, LAMBDA rt : rt # token)
     ELSE <<>>]

removeRefreshToken(user, token) ==
  [user EXCEPT !.refreshTokens = SelectSeq(user.refreshTokens, LAMBDA rt : rt # token)]

\* mutant: the list is left as it is
clearAllRefreshTokens_keepsList(user) == user

clearAllRefreshTokens(user) == [user EXCEPT !.refreshTokens = <<>>]

\* the tokens held in a list
TokensOf(user) == {user.refreshTokens[k] : k \in 1..Len(user.refreshTokens)}

\* Model.findOne(filter): the first matching document, 0 for null
FirstOf(S) == IF S = {} THEN 0 ELSE CHOOSE i \in S : \A j \in S : i <= j

findOneByEmail(email) == FirstOf({i \in 1..Len(users) : users[i].email = email})

findByEmailWithPassword(email) == findOneByEmail(email)

findById(id) == IF id \in 1..Len(users) THEN id ELSE 0

findByRefreshToken(token) ==
  FirstOf({i \in 1..Len(users) : token \in TokensOf(users[i])})

findOneByResetToken(token) ==
  FirstOf({i \in 1..Len(users) :
             /\ token \in users[i].passwordResetToken
             /\ \E t \in users[i].passwordResetExpires : t > now})

(* ------------- src/controllers/auth.js: session manager --------------- *)
\* res.status(status).json({success, message, data}); the token fields and
\* the user view of data are sets, empty when the response carries none.
Response(op, status, message) ==
  [op |-> op, status |-> status, message |-> message,
   accessToken |-> {}, refreshToken |-> {}, user |-> {}]

NoResponse == Response("none", 0, "")

\* What a handler leaves behind: the collection, the count of random values
\* drawn, and the response.
Outcome(us, n, response) == [users |-> us, nonce |-> n, res |-> response]

\* a handler that returns without writing
Reply(response) == Outcome(users, nonce, response)

TokenPayload(i) == [userId |-> i, email |-> users[i].email, role |-> users[i].role]

\* data.user: the public view of a record
PublicView(id, user) ==
  [id |-> id, email |-> user.email, firstName |-> user.firstName,
   lastName |-> user.lastName, role |-> user.role]

\* mutant: the role of the body is ignored
register_roleUser(email, password, roleInput) ==
  LET existingUser == findOneByEmail(email)
      id == Len(users) + 1
      created == generateEmailVerificationToken(newUser(email, password, "user"), nonce + 1)
      tokens == generateTokenPair([userId |-> id, email |-> created.email, role |-> created.role])
      withToken == addRefreshToken(created, tokens.refreshToken)
      saved == [withToken EXCEPT !.lastLogin = {now}]
  IN IF existingUser # 0
     THEN Reply(Response("register", 409, "User with this email already exists"))
     ELSE Outcome(Append(users, saved), nonce + 1,
                  [Response("register", 201, "User registered successfully")
                     EXCEPT !.accessToken = {tokens.accessToken},
                            !.refreshToken = {tokens.refreshToken},
                            !.user = {PublicView(id, saved)}])

register(email, password, roleInput) ==
  LET existingUser == findOneByEmail(email)
      role == IF roleInput = "omitted" THEN "user" ELSE roleInput
      id == Len(users) + 1
      created == generateEmailVerificationToken(newUser(email, password, role), nonce + 1)
      tokens == generateTokenPair([userId |-> id, email |-> created.email, role |-> created.role])
      withToken == addRefreshToken(created, tokens.refreshToken)
      saved == [withToken EXCEPT !.lastLogin = {now}]
  IN IF existingUser # 0
     THEN Reply(Response("register", 409, "User with this email already exists"))
     ELSE Outcome(Append(users, saved), nonce + 1,
                  [Response("register", 201, "User registered successfully")
                     EXCEPT !.accessToken = {tokens.accessToken},
                            !.refreshToken = {tokens.refreshToken},
                            !.user = {PublicView(id, saved)}])

login(email, password) ==
  LET i == findByEmailWithPassword(email)
  IN IF i = 0
     THEN Reply(Response("login", 401, "Invalid credentials"))
     ELSE IF isLocked(users[i])
     THEN Reply(Response("login", 423,
                  "Account is temporarily locked due to too many failed login attempts"))
     ELSE IF ~users[i].isActive
     THEN Reply(Response("login", 403, "Account is deactivated"))
     ELSE IF ~comparePassword(users[i], password)
     THEN LET attempts == users[i].loginAttempts + 1
              failed == [users[i] EXCEPT
                           !.loginAttempts = attempts,
                           !.lockUntil = IF attempts >= MAX_LOGIN_ATTEMPTS
                                         THEN {now + LOCK_TIME} ELSE @]
          IN Outcome([users EXCEPT ![i] = failed], nonce,
                     Response("login", 401, "Invalid credentials"))
     ELSE LET reset == [users[i] EXCEPT !.loginAttempts = 0, !.lockUntil = {},
                                        !.lastLogin = {now}]
              tokens == generateTokenPair(TokenPayload(i))
          IN Outcome([users EXCEPT ![i] = addRefreshToken(reset, tokens.refreshToken)], nonce,
                     [Response("login", 200, "Login successful")
                        EXCEPT !.accessToken = {tokens.accessToken},
                               !.refreshToken = {tokens.refreshToken},
                               !.user = {PublicView(i, reset)}])

\* mutant: a successful refresh takes the token out of the list
refreshToken_rotates(body) ==
  IF body = {}
  THEN Reply(Response("refreshToken", 400, "Refresh token is required"))
  ELSE LET token == CHOOSE t \in body : TRUE
           i == findByRefreshToken(token)
       IN IF ~verifyRefreshToken(token)
          THEN Reply(Response("refreshToken", 401, "Invalid refresh token"))
          ELSE IF i = 0
          THEN Reply(Response("refreshToken", 401, "Invalid refresh token"))
          ELSE IF ~users[i].isActive
          THEN Reply(Response("refreshToken", 403, "Account is deactivated"))
          ELSE Outcome([users EXCEPT ![i] = removeRefreshToken(users[i], token)], nonce,
                       [Response("refreshToken", 200, "Token refreshed successfully")
                          EXCEPT !.accessToken = {generateAccessToken(TokenPayload(i))}])

\* body is the set holding the refreshToken field of the request body
refreshToken(body) ==
  IF body = {}
  THEN Reply(Response("refreshToken", 400, "Refresh token is required"))
  ELSE LET token == CHOOSE t \in body : TRUE
           i == findByRefreshToken(token)
       IN IF ~verifyRefreshToken(token)
          THEN Reply(Response("refreshToken", 401, "Invalid refresh token"))
          ELSE IF i = 0
          THEN Reply(Response("refreshToken", 401, "Invalid refresh token"))
          ELSE IF ~users[i].isActive
          THEN Reply(Response("refreshToken", 403, "Account is deactivated"))
          ELSE Reply([Response("refreshToken", 200, "Token refreshed successfully")
                        EXCEPT !.accessToken = {generateAccessToken(TokenPayload(i))}])

\* reqUser is the set holding req.user, the identity context of the request
logout(reqUser, body) ==
  IF reqUser = {} \/ \A c \in reqUser : findById(c.userId) = 0
  THEN \* TypeError on req.user.userId or on the null document, caught
       Reply(Response("logout", 500, "Internal server error"))
  ELSE LET i == findById((CHOOSE c \in reqUser : TRUE).userId)
           after == IF body # {}
                    THEN removeRefreshToken(users[i], CHOOSE t \in body : TRUE)
                    ELSE clearAllRefreshTokens(users[i])
       IN Outcome([users EXCEPT ![i] = after], nonce,
                  Response("logout", 200, "Logout successful"))

\* reqUser holds the identity context (userId, email, role) of the request
getProfile(reqUser) ==
  IF reqUser = {}
  THEN \* TypeError on user.userId, caught
       Reply(Response("getProfile", 500, "Internal server error"))
  ELSE LET c == CHOOSE c \in reqUser : TRUE
       IN Reply([Response("getProfile", 200, "")
                   EXCEPT !.user = {[id |-> c.userId, email |-> c.email, role |-> c.role]}])

\* mutant: without identity context the first record is patched
updateProfile_anonymous(reqUser, body) ==
  LET i == IF reqUser = {} THEN findById(1)
           ELSE findById((CHOOSE c \in reqUser : TRUE).userId)
  IN IF i = 0
     THEN Reply(Response("updateProfile", 404, "User not found"))
     ELSE IF \E e \in body.email : e # users[i].email /\ findOneByEmail(e) # 0
     THEN Reply(Response("updateProfile", 409, "Email is already taken"))
     ELSE LET updated ==
                [users[i] EXCEPT
                   !.email = IF body.email # {}
                             THEN toLowerCase(CHOOSE e \in body.email : TRUE) ELSE @,
                   !.firstName = IF body.firstName # {}
                                 THEN CHOOSE n \in body.firstName : TRUE ELSE @,
                   !.lastName = IF body.lastName # {}
                                THEN CHOOSE n \in body.lastName : TRUE ELSE @]
          IN Outcome([users EXCEPT ![i] = updated], nonce,
                     [Response("updateProfile", 200, "Profile updated successfully")
                        EXCEPT !.user = {PublicView(i, updated)}])

\* body holds the optional fields firstName, lastName and email, each a set
updateProfile(reqUser, body) ==
  IF reqUser = {}
  THEN \* TypeError on req.user.userId, caught
       Reply(Response("updateProfile", 500, "Internal server error"))
  ELSE LET i == findById((CHOOSE c \in reqUser : TRUE).userId)
       IN IF i = 0
          THEN Reply(Response("updateProfile", 404, "User not found"))
          ELSE IF \E e \in body.email : e # users[i].email /\ findOneByEmail(e) # 0
          THEN Reply(Response("updateProfile", 409, "Email is already taken"))
          ELSE LET updated ==
                     [users[i] EXCEPT
                        !.email = IF body.email # {}
                                  THEN toLowerCase(CHOOSE e \in body.email : TRUE) ELSE @,
                        !.firstName = IF body.firstName # {}
                                      THEN CHOOSE n \in body.firstName : TRUE ELSE @,
                        !.lastName = IF body.lastName # {}
                                     THEN CHOOSE n \in body.lastName : TRUE ELSE @]
               IN Outcome([users EXCEPT ![i] = updated], nonce,
                          [Response("updateProfile", 200, "Profile updated successfully")
                             EXCEPT !.user = {PublicView(i, updated)}])

changePassword(reqUser, currentPassword, newPassword) ==
  IF reqUser = {}
  THEN Reply(Response("changePassword", 500, "Internal server error"))
  ELSE LET i == findById((CHOOSE c \in reqUser : TRUE).userId)
       IN IF i = 0
          THEN Reply(Response("changePassword", 404, "User not found"))
          ELSE IF ~comparePassword(users[i], currentPassword)
          THEN Reply(Response("changePassword", 400, "Current password is incorrect"))
          ELSE Outcome([users EXCEPT ![i] =
                          clearAllRefreshTokens(preSavePassword(users[i], newPassword))],
                       nonce,
                       Response("changePassword", 200, "Password changed successfully"))

\* mutant: an email without record is answered 404
requestPasswordReset_tellsMissing(email) ==
  LET i == findOneByEmail(email)
  IN IF i = 0
     THEN Reply(Response("requestPasswordReset", 404, "User not found"))
     ELSE Outcome([users EXCEPT ![i] = generatePasswordResetToken(users[i], nonce + 1)],
                  nonce + 1,
                  Response("requestPasswordReset", 200,
                    "If the email exists, a password reset link has been sent"))

requestPasswordReset(email) ==
  LET i == findOneByEmail(email)
  IN IF i = 0
     THEN Reply(Response("requestPasswordReset", 200,
                  "If the email exists, a password reset link has been sent"))
     ELSE Outcome([users EXCEPT ![i] = generatePasswordResetToken(users[i], nonce + 1)],
                  nonce + 1,
                  Response("requestPasswordReset", 200,
                    "If the email exists, a password reset link has been sent"))

\* mutant: the reset digest and its expiry are not cleared
resetPassword_keepsToken(token, password) ==
  LET i == findOneByResetToken(token)
  IN IF i = 0
     THEN Reply(Response("resetPassword", 400, "Invalid or expired reset token"))
     ELSE LET updated == [preSavePassword(users[i], password) EXCEPT
                            !.loginAttempts = 0,
                            !.lockUntil = {}]
          IN Outcome([users EXCEPT ![i] = clearAllRefreshTokens(updated)], nonce,
                     Response("resetPassword", 200, "Password reset successfully"))

resetPassword(token, password) ==
  LET i == findOneByResetToken(token)
  IN IF i = 0
     THEN Reply(Response("resetPassword", 400, "Invalid or expired reset token"))
     ELSE LET updated == [preSavePassword(users[i], password) EXCEPT
                            !.passwordResetToken = {},
                            !.passwordResetExpires = {},
                            !.loginAttempts = 0,
                            !.lockUntil = {}]
          IN Outcome([users EXCEPT ![i] = clearAllRefreshTokens(updated)], nonce,
                     Response("resetPassword", 200, "Password reset successfully"))

(* ----- the same handlers when the repository call they make throws ---- *)
\* (a timeout or an unreachable store): the handler runs up to its first
\* repository call, which rejects, and its catch block answers
loginStoreFailure(email, password) ==
  Reply(Response("login", 500, "Internal server error"))

refreshTokenStoreFailure(body) ==
  IF body = {}
  THEN Reply(Response("refreshToken", 400, "Refresh token is required"))
  ELSE \* verifyRefreshToken throws or User.findByRefreshToken rejects: one catch
       Reply(Response("refreshToken", 401, "Invalid refresh token"))

logoutStoreFailure(reqUser, body) ==
  Reply(Response("logout", 500, "Internal server error"))

changePasswordStoreFailure(reqUser, currentPassword, newPassword) ==
  Reply(Response("changePassword", 500, "Internal server error"))

resetPasswordStoreFailure(token, password) ==
  Reply(Response("resetPassword", 500, "Internal server error"))

(* ------------ src/authorizer.js: access decision function ------------- *)
\* A header value is the string ("Bearer " if bearer) followed by the text of
\* the token in tok, or by nothing when tok is empty.
Header(bearer, tok) == [bearer |-> bearer, tok |-> tok]

\* An event: identitySource is {} when the field is absent, {list} otherwise;
\* authorizationToken, routeArn and methodArn are {} when absent.
Event(identitySource, authorizationToken, routeArn, methodArn) ==
  [identitySource |-> identitySource, authorizationToken |-> authorizationToken,
   routeArn |-> routeArn, methodArn |-> methodArn]

\* the text left after an optional "Bearer " prefix; {} is the empty string
stripBearer(authHeader) == authHeader.tok

\* the token the handler evaluates, {} when it is null or the empty string
extractToken(event) ==
  IF \E l \in event.identitySource : Len(l) > 0
  THEN stripBearer((CHOOSE l \in event.identitySource : TRUE)[1])
  ELSE IF \E h \in event.authorizationToken : h.bearer \/ h.tok # {}
  THEN stripBearer(CHOOSE h \in event.authorizationToken : TRUE)
  ELSE {}

\* a || b on optional values
OrElse(a, b) == IF a # {} THEN a ELSE b

generatePolicy(principalId, effect, resource) ==
  [principalId |-> principalId,
   policyDocument |->
     IF effect # "" /\ resource # {}
     THEN {[Version |-> "2012-10-17",
            Statement |-> <<[Action |-> "execute-api:Invoke", Effect |-> effect,
                             Resource |-> CHOOSE r \in resource : TRUE]>>]}
     ELSE {},
   context |-> {}]

\* mutant: the decision looks the subject up and allows an active record only
handler_checksRecord(event) ==
  LET token == extractToken(event)
  IN IF token = {}
     THEN generatePolicy(0, "Deny", event.routeArn)
     ELSE LET decoded == CHOOSE t \in token : TRUE
          IN IF ~jwtVerify(decoded, JWT_SECRET)
                \/ \A i \in 1..Len(users) : i # decoded.userId \/ ~users[i].isActive
             THEN generatePolicy(0, "Deny", OrElse(event.routeArn, event.methodArn))
             ELSE [generatePolicy(IF decoded.sub # 0 THEN decoded.sub ELSE decoded.userId,
                                  "Allow", OrElse(event.routeArn, event.methodArn))
                     EXCEPT !.context =
                       {[userId |-> IF decoded.sub # 0 THEN decoded.sub ELSE decoded.userId,
                         email |-> decoded.email,
                         role |-> IF decoded.role # "" THEN decoded.role ELSE "user"]}]

\* principal 0 stands for the literal 'user'
handler(event) ==
  LET token == extractToken(event)
  IN IF token = {}
     THEN generatePolicy(0, "Deny", event.routeArn)
     ELSE LET decoded == CHOOSE t \in token : TRUE
          IN IF ~jwtVerify(decoded, JWT_SECRET)
             THEN generatePolicy(0, "Deny", OrElse(event.routeArn, event.methodArn))
             ELSE [generatePolicy(IF decoded.sub # 0 THEN decoded.sub ELSE decoded.userId,
                                  "Allow", OrElse(event.routeArn, event.methodArn))
                     EXCEPT !.context =
                       {[userId |-> IF decoded.sub # 0 THEN decoded.sub ELSE decoded.userId,
                         email |-> decoded.email,
                         role |-> IF decoded.role # "" THEN decoded.role ELSE "user"]}]

(* --------- src/handler.js (middleware/validation): sanitizers ---------- *)
\* mutant: the email reaches the controller as typed
validateRegistration_keepsCase(email) == email

\* body('email').normalizeEmail().toLowerCase(): the email the controller reads
validateRegistration(email) == toLowerCase(email)

validateLogin(email) == toLowerCase(email)

validateUpdateProfile(body) ==
  [body EXCEPT !.email = {toLowerCase(e) : e \in @}]

(* ------------------------------- steps -------------------------------- *)
\* one request served by a handler of the session manager; the counters the
\* code leaves unbounded stay within the bounds of the model
Serve(outcome) ==
  /\ Len(outcome.users) <= MaxUsers
  /\ outcome.nonce <= MaxNonce
  /\ \A i \in 1..Len(outcome.users) : outcome.users[i].loginAttempts <= MaxAttempts
  /\ users' = outcome.users
  /\ nonce' = outcome.nonce
  /\ res' = outcome.res
  /\ UNCHANGED <<now, decision>>

CallRegister(email, password, roleInput) == Serve(register(email, password, roleInput))

CallLogin(email, password) == Serve(login(email, password))

\* POST /register, POST /login and PUT /profile behind their validation
PostRegister(email, password, roleInput) ==
  Serve(register(validateRegistration(email), password, roleInput))

PostLogin(email, password) == Serve(login(validateLogin(email), password))

CallGetProfile(reqUser) == Serve(getProfile(reqUser))

PutProfile(reqUser, body) == Serve(updateProfile(reqUser, validateUpdateProfile(body)))

CallRefreshToken(body) == Serve(refreshToken(body))

CallLogout(reqUser, body) == Serve(logout(reqUser, body))

CallChangePassword(reqUser, currentPassword, newPassword) ==
  Serve(changePassword(reqUser, currentPassword, newPassword))

CallRequestPasswordReset(email) == Serve(requestPasswordReset(email))

CallResetPassword(token, password) == Serve(resetPassword(token, password))

\* one invocation of the authorizer by the gateway
Authorize(event) ==
  /\ decision' = handler(event)
  /\ res' = NoResponse
  /\ UNCHANGED <<users, now, nonce>>

\* the clock advances to a later instant
Tick(t) ==
  /\ t > now
  /\ now' = t
  /\ res' = NoResponse
  /\ UNCHANGED <<users, nonce, decision>>

\* the active flag of a record is written by an administrator, outside the
\* session manager
setActive(i, active) ==
  /\ i \in 1..Len(users)
  /\ users[i].isActive # active
  /\ users' = [users EXCEPT ![i].isActive = active]
  /\ res' = NoResponse
  /\ UNCHANGED <<now, nonce, decision>>

(* ------------------------------- inputs ------------------------------- *)
\* the claim sets a caller can name: those of a record, and the same with a
\* role the record does not hold
Payloads == {[userId |-> i, email |-> e, role |-> r] :
               i \in Ids, e \in Emails, r \in {"user", "admin"}}

\* the token jwtSign gave, or would have given, at time t
IssuedAt(token, t) == [token EXCEPT !.iat = t, !.exp = t + (token.exp - token.iat)]

ATTACKER_SECRET == "attacker-secret"

Past == {t \in Instants : t <= now}

\* every access token the codec can have produced up to now
AccessTokens == {IssuedAt(generateAccessToken(p), t) : p \in Payloads, t \in Past}

\* every refresh token the codec can have produced up to now
RefreshTokens == {IssuedAt(generateRefreshToken(p), t) : p \in Payloads, t \in Past}

\* the same claims signed with a key of the caller's
ForgedTokens == {[t EXCEPT !.key = ATTACKER_SECRET] : t \in AccessTokens \cup RefreshTokens}

\* tokens signed with the keys of the codec by another issuer or for another
\* audience
ForeignTokens ==
  {[t EXCEPT !.iss = "other-api"] : t \in AccessTokens \cup RefreshTokens}
  \cup {[t EXCEPT !.aud = "other-users"] : t \in AccessTokens \cup RefreshTokens}

\* every token a caller may present
TokenInputs == AccessTokens \cup RefreshTokens \cup ForgedTokens \cup {MalformedToken}

\* the refreshToken field of a request body, {} when absent
BodyTokens == {{}} \cup {{t} : t \in TokenInputs}

\* logout compares the field with the list entries and nothing else
LogoutBodies == {{}} \cup {{t} : t \in RefreshTokens \cup {MalformedToken}}

Identities == {{}} \cup {{[userId |-> i]} : i \in Ids}

ResetInputs == {x \in [n : 1..MaxNonce, h : {0, 1}] : x.n <= nonce}

HeaderInputs ==
  {Header(b, tok) : b \in BOOLEAN, tok \in {{}} \cup {{t} : t \in TokenInputs}}

Arns == {<<{}, {"arn:method"}>>, <<{"arn:route"}, {}>>, <<{"arn:route"}, {"arn:method"}>>}

\* the events of the gateway: any header first in the identity source, next
\* to no legacy field or to one that bears an access token; or any header in
\* the legacy field, the identity source being absent or empty
EventInputs ==
  {Event(src, auth, arn[1], arn[2]) :
     src \in {{<<h>>} : h \in HeaderInputs},
     auth \in {{}} \cup {{Header(TRUE, {t})} : t \in AccessTokens},
     arn \in Arns}
  \cup
  {Event(src, auth, arn[1], arn[2]) :
     src \in {{}, {<<>>}},
     auth \in {{}} \cup {{h} : h \in HeaderInputs},
     arn \in Arns}

(* ---------------------------- specification --------------------------- *)
\* the request of the last step: the handler and the fields of the body it read
Request(op, email, password, token) ==
  [op |-> op, email |-> email, password |-> password, token |-> token]

NoToken == [n |-> 0, h |-> 0]

NoRequest == Request("none", "", "", NoToken)

\* the requests that can be in progress at once
Procs == {1, 2}

\* the fields of a request body read by the handlers served step by step
Args(email, password, newPassword, body) ==
  [email |-> email, password |-> password, newPassword |-> newPassword, body |-> body]

\* a request in progress: the handler and its position, the index, the copy
\* and the __v of the document it loaded, its body and its response
InFlight(op, pc, i, doc, v, arg, response) ==
  [op |-> op, pc |-> pc, i |-> i, doc |-> doc, v |-> v, arg |-> arg, res |-> response]

Idle == InFlight("none", "idle", 0, {}, 0, Args("", "", "", {}), NoResponse)

Init ==
  /\ users = <<>>
  /\ now = 0
  /\ nonce = 0
  /\ res = NoResponse
  /\ decision = generatePolicy(0, "", {})
  /\ revoked = {}
  /\ req = NoRequest
  /\ prev = <<>>
  /\ streak = [e \in Emails |-> 0]
  /\ flight = [p \in Procs |-> Idle]
  /\ version = [i \in 1..MaxUsers |-> 0]

AllTokens(us) == UNION {TokensOf(us[i]) : i \in 1..Len(us)}

\* history: the refresh tokens that a logout, a changePassword or a
\* resetPassword has removed from a list
TrackRevoked ==
  revoked' = IF res'.op \in {"logout", "changePassword", "resetPassword"}
             THEN revoked \cup (AllTokens(users) \ AllTokens(users'))
             ELSE revoked

\* the bodies in which the token, if well formed, claims the role "user",
\* the only role a record has under Spec
UserRole(bodies) == {b \in bodies : \A t \in b : t.wf => t.role = "user"}

\* Session lifecycle: one password, so that the lockout never starts.
Next ==
  /\ \/ \E e \in Emails : CallRegister(e, "pw1", "omitted")
     \/ \E e \in Emails : CallLogin(e, "pw1")
     \/ \E b \in UserRole(BodyTokens) : CallRefreshToken(b)
     \/ \E u \in Identities, b \in UserRole(LogoutBodies) : CallLogout(u, b)
     \/ \E u \in Identities : CallChangePassword(u, "pw1", "pw1")
     \/ \E e \in Emails : CallRequestPasswordReset(e)
     \/ \E x \in ResetInputs : CallResetPassword(x, "pw1")
     \/ \E i \in 1..MaxUsers, a \in BOOLEAN : setActive(i, a)
     \/ \E t \in {1, JWT_REFRESH_EXPIRES_IN} : Tick(t)
  /\ TrackRevoked
  /\ UNCHANGED <<req, prev, streak, flight, version>>

Spec == Init /\ [][Next]_vars

\* password is not the password of the record registered under email
WrongPassword(email, password) ==
  \E i \in 1..Len(users) :
    users[i].email = email /\ users[i].password # <<"bcrypt", password>>

\* history: the request and the collection before it was served
Track(request) ==
  /\ req' = request
  /\ prev' = users
  /\ UNCHANGED <<revoked, flight, version>>

\* history: the number (up to the limit) of login calls in a row with a wrong
\* password for an email, counted from a call that found the counter at 0;
\* any other request ends the row, the passing of time does not
TrackStreak(email, password) ==
  streak' = [streak EXCEPT ![email] =
    IF /\ WrongPassword(email, password)
       /\ (@ > 0 \/ users[findOneByEmail(email)].loginAttempts = 0)
    THEN (IF @ < MAX_LOGIN_ATTEMPTS THEN @ + 1 ELSE @)
    ELSE 0]

EndStreaks == streak' = [e \in Emails |-> 0]

\* Lockout and password reset: both passwords, the clock read before, at and
\* after the reset expiry and at the lock expiry.
NextLock ==
  \/ \E e \in Emails :
       /\ CallRegister(e, "pw1", "omitted")
       /\ Track(Request("register", e, "pw1", NoToken)) /\ EndStreaks
  \/ \E e \in Emails, p \in Passwords :
       /\ CallLogin(e, p)
       /\ Track(Request("login", e, p, NoToken)) /\ TrackStreak(e, p)
  \/ \E e \in Emails :
       /\ CallRequestPasswordReset(e)
       /\ Track(Request("requestPasswordReset", e, "", NoToken)) /\ EndStreaks
  \/ \E x \in ResetInputs, p \in Passwords :
       /\ CallResetPassword(x, p)
       /\ Track(Request("resetPassword", "", p, x)) /\ EndStreaks
  \/ \E i \in 1..MaxUsers, a \in BOOLEAN :
       /\ setActive(i, a)
       /\ Track(Request("setActive", "", "", NoToken)) /\ EndStreaks
  \/ \E t \in {1, LOCK_TIME} :
       /\ Tick(t)
       /\ Track(Request("tick", "", "", NoToken)) /\ UNCHANGED streak

SpecLock == Init /\ [][NextLock]_vars

\* history: the request served last, the other histories standing still
TrackGate(request) ==
  /\ req' = request
  /\ UNCHANGED <<revoked, prev, streak, flight, version>>

\* what the authorizer read of the event: the token it extracted and the
\* resource identifiers
Evaluated(event) ==
  [token |-> extractToken(event),
   routeArn |-> event.routeArn, methodArn |-> event.methodArn]

\* Authorizer: the gateway presents any event, with any token the codec can
\* have issued up to now, a forged one or a malformed one; a record
\* registers, access tokens are offered to refresh(), and the clock passes
\* the expiry of an access token.
NextAuthz ==
  \/ \E e \in Emails :
       /\ CallRegister(e, "pw1", "omitted")
       /\ TrackGate(Request("register", e, "pw1", NoToken))
  \/ \E t \in AccessTokens :
       /\ CallRefreshToken({t})
       /\ TrackGate(Request("refreshToken", "", "", {t}))
  \/ \E ev \in EventInputs :
       /\ Authorize(ev)
       /\ TrackGate(Request("authorize", "", "", Evaluated(ev)))
  \/ \E t \in {1, JWT_ACCESS_EXPIRES_IN} :
       /\ Tick(t)
       /\ TrackGate(Request("tick", "", "", NoToken))

SpecAuthz == Init /\ [][NextAuthz]_vars

\* every refresh token the codec can have issued to a record up to now
IssuedTokens ==
  {IssuedAt(generateRefreshToken(TokenPayload(i)), t) : i \in 1..Len(users), t \in Past}

\* the refreshToken field of a logout body: absent, or a token once issued
DeviceBodies == {{}} \cup {{t} : t \in IssuedTokens}

\* Devices: two accounts, each logging in from several devices and logging
\* out from one or from all, across two instants.
NextDevices ==
  /\ \/ \E e \in Accounts :
          /\ CallRegister(e, "pw1", "omitted")
          /\ Track(Request("register", e, "pw1", NoToken))
     \/ \E e \in Accounts :
          /\ CallLogin(e, "pw1")
          /\ Track(Request("login", e, "pw1", NoToken))
     \/ \E i \in 1..Len(users), t \in IssuedTokens :
          /\ CallLogout({[userId |-> i]}, {t})
          /\ Track(Request("logout", users[i].email, "", {t}))
     \/ \E i \in 1..Len(users) :
          /\ CallLogout({[userId |-> i]}, {})
          /\ Track(Request("logout", users[i].email, "", {}))
     \/ /\ Tick(1)
        /\ Track(Request("tick", "", "", NoToken))
  /\ UNCHANGED streak

SpecDevices == Init /\ [][NextDevices]_vars

\* Password change: both passwords as the current and as the new one, failed
\* logins up to the lock, the clock read before and after the lock expiry.
NextPassword ==
  /\ \/ \E e \in Emails :
          /\ CallRegister(e, "pw1", "omitted")
          /\ Track(Request("register", e, "pw1", NoToken))
     \/ \E e \in Emails, p \in Passwords :
          /\ CallLogin(e, p)
          /\ Track(Request("login", e, p, NoToken))
     \/ \E u \in Identities, c \in Passwords, p \in Passwords :
          /\ CallChangePassword(u, c, p)
          /\ Track(Request("changePassword", "", c, [reqUser |-> u, newPassword |-> p]))
     \/ \E t \in {1, LOCK_TIME} :
          /\ Tick(t)
          /\ Track(Request("tick", "", "", NoToken))
  /\ UNCHANGED streak

SpecPassword == Init /\ [][NextPassword]_vars

\* every access token the codec can have issued to a record up to now
IssuedAccessTokens ==
  {IssuedAt(generateAccessToken(TokenPayload(i)), t) : i \in 1..Len(users), t \in Past}

\* the event by which the gateway presents token t as a Bearer credential
BearerEvent(t) == Event({<<Header(TRUE, {t})>>}, {}, {"arn:route"}, {})

\* history: the request served last and the tokens revoked so far
TrackSession(request) ==
  /\ req' = request
  /\ TrackRevoked
  /\ UNCHANGED <<prev, streak, flight, version>>

\* Access tokens across the session lifecycle: a record registers and logs
\* in, its sessions are revoked by logout, changePassword and resetPassword,
\* it is deactivated, and the gateway presents its access tokens before and
\* after their expiry.
NextStateless ==
  \/ \E e \in Emails :
       /\ CallRegister(e, "pw1", "omitted")
       /\ TrackSession(Request("register", e, "pw1", NoToken))
  \/ \E e \in Emails :
       /\ CallLogin(e, "pw1")
       /\ TrackSession(Request("login", e, "pw1", NoToken))
  \/ \E i \in 1..Len(users) :
       /\ CallLogout({[userId |-> i]}, {})
       /\ TrackSession(Request("logout", users[i].email, "", NoToken))
  \/ \E i \in 1..Len(users) :
       /\ CallChangePassword({[userId |-> i]}, "pw1", "pw1")
       /\ TrackSession(Request("changePassword", users[i].email, "pw1", NoToken))
  \/ \E e \in Emails :
       /\ CallRequestPasswordReset(e)
       /\ TrackSession(Request("requestPasswordReset", e, "", NoToken))
  \/ \E x \in ResetInputs :
       /\ CallResetPassword(x, "pw1")
       /\ TrackSession(Request("resetPassword", "", "pw1", NoToken))
  \/ \E i \in 1..MaxUsers, a \in BOOLEAN :
       /\ setActive(i, a)
       /\ TrackSession(Request("setActive", "", "", NoToken))
  \/ \E t \in IssuedAccessTokens :
       /\ Authorize(BearerEvent(t))
       /\ TrackSession(Request("authorize", "", "", NoToken))
  \/ \E t \in {1, JWT_ACCESS_EXPIRES_IN} :
       /\ Tick(t)
       /\ TrackSession(Request("tick", "", "", NoToken))

SpecStateless == Init /\ [][NextStateless]_vars

\* the identity contexts a request can carry: none, or that of a record
Contexts ==
  {{}} \cup {{[userId |-> i, email |-> users[i].email, role |-> users[i].role]} :
               i \in 1..Len(users)}

\* the bodies of PUT /profile
ProfileBodies ==
  [firstName : {{}, {OtherName}}, lastName : {{}},
   email : {{}} \cup {{e} : e \in RawEmails}]

\* Profiles: two accounts whose emails arrive in either letter case; records
\* register, fail to log in, read and patch their profile, log out and
\* change their password, with and without an identity context.
NextProfile ==
  /\ \/ \E e \in RawEmails :
          /\ PostRegister(e, "pw1", "omitted")
          /\ Track(Request("register", e, "pw1", NoToken))
     \/ \E e \in RawEmails :
          /\ PostLogin(e, "pw2")
          /\ Track(Request("login", e, "pw2", NoToken))
     \/ \E u \in Contexts :
          /\ CallGetProfile(u)
          /\ Track(Request("getProfile", "", "", [reqUser |-> u]))
     \/ \E u \in Contexts, b \in ProfileBodies :
          /\ PutProfile(u, b)
          /\ Track(Request("updateProfile", "", "", [reqUser |-> u, body |-> b]))
     \/ \E u \in Contexts :
          /\ CallLogout(u, {})
          /\ Track(Request("logout", "", "", [reqUser |-> u]))
     \/ \E u \in Contexts :
          /\ CallChangePassword(u, "pw1", "pw1")
          /\ Track(Request("changePassword", "", "pw1", [reqUser |-> u]))
  /\ UNCHANGED streak

SpecProfile == Init /\ [][NextProfile]_vars

\* Outage: a record registers and logs in, time passes, and requests of the
\* five handlers arrive while the repository does not answer.
NextOutage ==
  /\ \/ \E e \in Emails :
          /\ CallRegister(e, "pw1", "omitted")
          /\ Track(Request("register", e, "pw1", NoToken))
     \/ \E e \in Emails, p \in Passwords :
          /\ CallLogin(e, p)
          /\ Track(Request("login", e, p, [storeDown |-> FALSE, body |-> {}]))
     \/ \E e \in Emails, p \in Passwords :
          /\ Serve(loginStoreFailure(e, p))
          /\ Track(Request("login", e, p, [storeDown |-> TRUE, body |-> {}]))
     \/ \E b \in DeviceBodies :
          /\ Serve(refreshTokenStoreFailure(b))
          /\ Track(Request("refreshToken", "", "", [storeDown |-> TRUE, body |-> b]))
     \/ \E u \in Identities, b \in DeviceBodies :
          /\ Serve(logoutStoreFailure(u, b))
          /\ Track(Request("logout", "", "", [storeDown |-> TRUE, body |-> b]))
     \/ \E u \in Identities, c \in Passwords, p \in Passwords :
          /\ Serve(changePasswordStoreFailure(u, c, p))
          /\ Track(Request("changePassword", "", c, [storeDown |-> TRUE, body |-> {}]))
     \/ \E x \in ResetInputs, p \in Passwords :
          /\ Serve(resetPasswordStoreFailure(x, p))
          /\ Track(Request("resetPassword", "", p, [storeDown |-> TRUE, body |-> {}]))
     \/ \E e \in Emails :
          /\ CallRequestPasswordReset(e)
          /\ Track(Request("requestPasswordReset", e, "", NoToken))
     \/ \E t \in {1, LOCK_TIME} :
          /\ Tick(t)
          /\ Track(Request("tick", "", "", NoToken))
  /\ UNCHANGED streak

SpecOutage == Init /\ [][NextOutage]_vars

(* ------- src/controllers/auth.js, one repository call at a time ------- *)
\* what a step of a request in progress leaves alone
StepFrame == UNCHANGED <<now, nonce, res, decision, revoked, req, prev>>

\* the requests that hold a loaded document
Running == {p \in Procs : flight[p].pc \notin {"idle", "done"}}

\* the request has answered
Answer(f, response) == [f EXCEPT !.pc = "done", !.res = response]

\* mutant: a rewritten array is saved whatever the __v of the record
versionMatches_always(i, v) == TRUE

\* save() of a document whose array was reassigned: the update is conditioned
\* on the __v the document was loaded with and throws VersionError otherwise
versionMatches(i, v) == version[i] = v

\* login from findByEmailWithPassword to comparePassword
loginFind(p, email, password) ==
  /\ flight[p].pc = "idle"
  /\ LET i == findByEmailWithPassword(email)
         f == InFlight("login", "idle", i, {}, 0, Args(email, password, "", {}), NoResponse)
         checked == i # 0 /\ ~isLocked(users[i]) /\ users[i].isActive
     IN /\ i # 0 => version[i] + Cardinality(Running) < MaxVersion
        /\ flight' = [flight EXCEPT ![p] =
             IF i = 0
             THEN Answer(f, Response("login", 401, "Invalid credentials"))
             ELSE IF isLocked(users[i])
             THEN Answer(f, Response("login", 423,
                    "Account is temporarily locked due to too many failed login attempts"))
             ELSE IF ~users[i].isActive
             THEN Answer(f, Response("login", 403, "Account is deactivated"))
             ELSE [f EXCEPT !.doc = {users[i]}, !.v = version[i],
                            !.pc = IF comparePassword(users[i], password)
                                   THEN "saveSuccess" ELSE "saveFailure"]]
        /\ streak' = IF checked /\ ~comparePassword(users[i], password)
                     THEN [streak EXCEPT ![email] = IF @ < MaxAttempts THEN @ + 1 ELSE @]
                     ELSE streak
  /\ UNCHANGED <<users, version>>
  /\ StepFrame

\* login after a failed check: loginAttempts += 1, the lock, save()
loginSaveFailure(p) ==
  /\ flight[p].op = "login" /\ flight[p].pc = "saveFailure"
  /\ LET f == flight[p]
         doc == CHOOSE d \in f.doc : TRUE
         attempts == doc.loginAttempts + 1
     IN /\ users' = [users EXCEPT
                       ![f.i].loginAttempts = attempts,
                       ![f.i].lockUntil = IF attempts >= MAX_LOGIN_ATTEMPTS
                                          THEN {now + LOCK_TIME} ELSE @]
        /\ flight' = [flight EXCEPT ![p] =
                        Answer(f, Response("login", 401, "Invalid credentials"))]
  /\ UNCHANGED <<version, streak>>
  /\ StepFrame

\* login after a passed check: the lockout fields and lastLogin, save(); the
\* update sets the paths whose value changed in the loaded document
loginSaveSuccess(p) ==
  /\ flight[p].op = "login" /\ flight[p].pc = "saveSuccess"
  /\ LET f == flight[p]
         doc == CHOOSE d \in f.doc : TRUE
         reset == [doc EXCEPT !.loginAttempts = 0, !.lockUntil = {}, !.lastLogin = {now}]
     IN /\ users' = [users EXCEPT
                       ![f.i].loginAttempts = IF doc.loginAttempts # 0 THEN 0 ELSE @,
                       ![f.i].lockUntil = IF doc.lockUntil # {} THEN {} ELSE @,
                       ![f.i].lastLogin = {now}]
        /\ flight' = [flight EXCEPT ![p] = [f EXCEPT !.doc = {reset}, !.pc = "addRefreshToken"]]
        /\ streak' = [streak EXCEPT ![f.arg.email] = 0]
  /\ UNCHANGED version
  /\ StepFrame

\* login from generateTokenPair to the response: addRefreshToken pushes, which
\* is saved as an append to the stored list, or, past the cap, reassigns the
\* list, which is saved as a whole under the version condition
loginAddRefreshToken(p) ==
  /\ flight[p].op = "login" /\ flight[p].pc = "addRefreshToken"
  /\ LET f == flight[p]
         doc == CHOOSE d \in f.doc : TRUE
         tokens == generateTokenPair([userId |-> f.i, email |-> doc.email, role |-> doc.role])
         pushed == Append(doc.refreshTokens, tokens.refreshToken)
         success == [Response("login", 200, "Login successful")
                       EXCEPT !.accessToken = {tokens.accessToken},
                              !.refreshToken = {tokens.refreshToken},
                              !.user = {PublicView(f.i, doc)}]
     IN IF Len(pushed) > MAX_REFRESH_TOKENS /\ ~versionMatches(f.i, f.v)
        THEN /\ flight' = [flight EXCEPT ![p] =
                             Answer(f, Response("login", 500, "Internal server error"))]
             /\ UNCHANGED <<users, version>>
        ELSE /\ users' = [users EXCEPT ![f.i].refreshTokens =
                            IF Len(pushed) > MAX_REFRESH_TOKENS
                            THEN SubSeq(pushed, Len(pushed) - MAX_REFRESH_TOKENS + 1, Len(pushed))
                            ELSE Append(@, tokens.refreshToken)]
             /\ version' = [version EXCEPT ![f.i] = @ + 1]
             /\ flight' = [flight EXCEPT ![p] = Answer(f, success)]
  /\ UNCHANGED streak
  /\ StepFrame

\* the response has been sent; the slot takes the next request
recycle(p) ==
  /\ flight[p].pc = "done"
  /\ flight' = [flight EXCEPT ![p] = Idle]
  /\ UNCHANGED <<users, version, streak>>
  /\ StepFrame

\* a registration served while no other request is in progress; its
\* addRefreshToken is the first array write of the record
registerAlone(email) ==
  /\ Running = {}
  /\ CallRegister(email, "pw1", "omitted")
  /\ version' = IF Len(users') > Len(users)
                THEN [version EXCEPT ![Len(users')] = 1] ELSE version
  /\ UNCHANGED <<revoked, req, prev, streak, flight>>

\* Concurrent logins: one account, two requests in progress at a time, each
\* served one repository call at a time, across two instants.
NextRace ==
  \/ \E e \in Emails : registerAlone(e)
  \/ \E p \in Procs, e \in Emails, pw \in Passwords : loginFind(p, e, pw)
  \/ \E p \in Procs : loginSaveFailure(p)
  \/ \E p \in Procs : loginSaveSuccess(p)
  \/ \E p \in Procs : loginAddRefreshToken(p)
  \/ \E p \in Procs : recycle(p)
  \/ /\ Tick(1)
     /\ UNCHANGED <<revoked, req, prev, streak, flight, version>>

SpecRace == Init /\ [][NextRace]_vars

\* Concurrent successful logins: the same, with the right password only and
\* across three instants, so that the tokens of the list, of the one login
\* and of the other can all differ.
NextAppend ==
  \/ \E e \in Emails : registerAlone(e)
  \/ \E p \in Procs, e \in Emails : loginFind(p, e, "pw1")
  \/ \E p \in Procs : loginSaveSuccess(p)
  \/ \E p \in Procs : loginAddRefreshToken(p)
  \/ \E p \in Procs : recycle(p)
  \/ \E t \in {1, JWT_ACCESS_EXPIRES_IN} :
       /\ Tick(t)
       /\ UNCHANGED <<revoked, req, prev, streak, flight, version>>

SpecAppend == Init /\ [][NextAppend]_vars

\* changePassword from findById to comparePassword
changePasswordFind(p, reqUser, currentPassword, newPassword) ==
  /\ flight[p].pc = "idle"
  /\ LET i == IF reqUser = {} THEN 0 ELSE findById((CHOOSE c \in reqUser : TRUE).userId)
         f == InFlight("changePassword", "idle", i, {}, 0,
                       Args("", currentPassword, newPassword, {}), NoResponse)
     IN /\ i # 0 => version[i] + Cardinality(Running) < MaxVersion
        /\ flight' = [flight EXCEPT ![p] =
             IF reqUser = {}
             THEN Answer(f, Response("changePassword", 500, "Internal server error"))
             ELSE IF i = 0
             THEN Answer(f, Response("changePassword", 404, "User not found"))
             ELSE IF ~comparePassword(users[i], currentPassword)
             THEN Answer(f, Response("changePassword", 400, "Current password is incorrect"))
             ELSE [f EXCEPT !.doc = {users[i]}, !.v = version[i], !.pc = "savePassword"]]
  /\ UNCHANGED <<users, version, streak>>
  /\ StepFrame

\* changePassword: user.password = newPassword, save()
changePasswordSave(p) ==
  /\ flight[p].op = "changePassword" /\ flight[p].pc = "savePassword"
  /\ LET f == flight[p]
         doc == CHOOSE d \in f.doc : TRUE
     IN /\ users' = [users EXCEPT ![f.i].password = bcryptHash(f.arg.newPassword)]
        /\ flight' = [flight EXCEPT ![p] =
                        [f EXCEPT !.doc = {preSavePassword(doc, f.arg.newPassword)},
                                  !.pc = "clearAll"]]
  /\ UNCHANGED <<version, streak>>
  /\ StepFrame

\* resetPassword: findOne by reset digest and expiry
resetPasswordFind(p, token, password) ==
  /\ flight[p].pc = "idle"
  /\ LET i == findOneByResetToken(token)
         f == InFlight("resetPassword", "idle", i, {}, 0,
                       Args("", "", password, {}), NoResponse)
     IN /\ i # 0 => version[i] + Cardinality(Running) < MaxVersion
        /\ flight' = [flight EXCEPT ![p] =
             IF i = 0
             THEN Answer(f, Response("resetPassword", 400, "Invalid or expired reset token"))
             ELSE [f EXCEPT !.doc = {users[i]}, !.v = version[i], !.pc = "savePassword"]]
  /\ UNCHANGED <<users, version, streak>>
  /\ StepFrame

\* resetPassword: the password, the reset fields and the lockout fields,
\* save(); the update sets the paths whose value changed in the document
resetPasswordSave(p) ==
  /\ flight[p].op = "resetPassword" /\ flight[p].pc = "savePassword"
  /\ LET f == flight[p]
         doc == CHOOSE d \in f.doc : TRUE
         updated == [preSavePassword(doc, f.arg.newPassword) EXCEPT
                       !.passwordResetToken = {}, !.passwordResetExpires = {},
                       !.loginAttempts = 0, !.lockUntil = {}]
     IN /\ users' = [users EXCEPT
                       ![f.i].password = bcryptHash(f.arg.newPassword),
                       ![f.i].passwordResetToken = IF doc.passwordResetToken # {} THEN {} ELSE @,
                       ![f.i].passwordResetExpires = IF doc.passwordResetExpires # {} THEN {} ELSE @,
                       ![f.i].loginAttempts = IF doc.loginAttempts # 0 THEN 0 ELSE @,
                       ![f.i].lockUntil = IF doc.lockUntil # {} THEN {} ELSE @]
        /\ flight' = [flight EXCEPT ![p] = [f EXCEPT !.doc = {updated}, !.pc = "clearAll"]]
  /\ UNCHANGED <<version, streak>>
  /\ StepFrame

PasswordChanged(op) ==
  IF op = "changePassword"
  THEN Response(op, 200, "Password changed successfully")
  ELSE Response(op, 200, "Password reset successfully")

\* changePassword and resetPassword: clearAllRefreshTokens reassigns the list,
\* which is saved as a whole under the version condition; an empty list
\* reassigned empty is no change and writes nothing
clearAllSave(p) ==
  /\ flight[p].op \in {"changePassword", "resetPassword"} /\ flight[p].pc = "clearAll"
  /\ LET f == flight[p]
         doc == CHOOSE d \in f.doc : TRUE
     IN IF doc.refreshTokens = <<>>
        THEN /\ flight' = [flight EXCEPT ![p] = Answer(f, PasswordChanged(f.op))]
             /\ UNCHANGED <<users, version>>
        ELSE IF versionMatches(f.i, f.v)
        THEN /\ users' = [users EXCEPT ![f.i].refreshTokens = <<>>]
             /\ version' = [version EXCEPT ![f.i] = @ + 1]
             /\ flight' = [flight EXCEPT ![p] = Answer(f, PasswordChanged(f.op))]
        ELSE /\ flight' = [flight EXCEPT ![p] =
                             Answer(f, Response(f.op, 500, "Internal server error"))]
             /\ UNCHANGED <<users, version>>
  /\ UNCHANGED streak
  /\ StepFrame

\* the same save when the repository does not answer in time
clearAllTimesOut(p) ==
  /\ flight[p].op \in {"changePassword", "resetPassword"} /\ flight[p].pc = "clearAll"
  /\ flight' = [flight EXCEPT ![p] =
                  Answer(flight[p], Response(flight[p].op, 500, "Internal server error"))]
  /\ UNCHANGED <<users, version, streak>>
  /\ StepFrame

\* a reset request served while no other request is in progress
requestPasswordResetAlone(email) ==
  /\ Running = {}
  /\ CallRequestPasswordReset(email)
  /\ UNCHANGED <<revoked, req, prev, streak, flight, version>>

\* Concurrent password changes: one account whose password is changed or
\* reset by one request while a login with the first password is in progress
\* in another.
NextRewrite ==
  \/ \E e \in Emails : registerAlone(e)
  \/ \E e \in Emails : requestPasswordResetAlone(e)
  \/ \E e \in Emails : loginFind(1, e, "pw1")
  \/ loginSaveSuccess(1)
  \/ loginSaveFailure(1)
  \/ loginAddRefreshToken(1)
  \/ \E u \in Identities : changePasswordFind(2, u, "pw1", "pw2")
  \/ changePasswordSave(2)
  \/ \E x \in ResetInputs : resetPasswordFind(2, x, "pw2")
  \/ resetPasswordSave(2)
  \/ clearAllSave(2)
  \/ clearAllTimesOut(2)
  \/ \E p \in Procs : recycle(p)

SpecRewrite == Init /\ [][NextRewrite]_vars

\* email: { unique: true }: the unique index refuses a write that would give
\* the record self (0 for a new record) an email another record holds
uniqueIndexAllows(email, self) ==
  \A j \in 1..Len(users) : j # self => users[j].email # email

StepFrameWrite == UNCHANGED <<now, res, decision, revoked, req, prev, streak>>

\* register: findOne({ email })
registerFind(p, email) ==
  /\ flight[p].pc = "idle"
  /\ LET f == InFlight("register", "idle", 0, {}, 0, Args(email, "pw1", "", {}), NoResponse)
     IN flight' = [flight EXCEPT ![p] =
          IF findOneByEmail(email) # 0
          THEN Answer(f, Response("register", 409, "User with this email already exists"))
          ELSE [f EXCEPT !.pc = "insert"]]
  /\ UNCHANGED <<users, version, streak>>
  /\ StepFrame

\* register: new User, generateEmailVerificationToken, save(); the insert is
\* refused by the unique index when the email was taken since findOne
registerInsert(p) ==
  /\ flight[p].op = "register" /\ flight[p].pc = "insert"
  /\ nonce < MaxNonce
  /\ LET f == flight[p]
         created == generateEmailVerificationToken(
                      newUser(f.arg.email, f.arg.password, "user"), nonce + 1)
     IN IF uniqueIndexAllows(created.email, 0)
        THEN /\ Len(users) < MaxUsers
             /\ users' = Append(users, created)
             /\ flight' = [flight EXCEPT ![p] =
                             [f EXCEPT !.i = Len(users) + 1, !.doc = {created},
                                       !.pc = "addRefreshToken"]]
        ELSE /\ users' = users
             /\ flight' = [flight EXCEPT ![p] =
                             Answer(f, Response("register", 500, "Internal server error"))]
  /\ nonce' = nonce + 1
  /\ UNCHANGED version
  /\ StepFrameWrite

\* register: generateTokenPair, addRefreshToken
registerAddRefreshToken(p) ==
  /\ flight[p].op = "register" /\ flight[p].pc = "addRefreshToken"
  /\ LET f == flight[p]
         doc == CHOOSE d \in f.doc : TRUE
         tokens == generateTokenPair([userId |-> f.i, email |-> doc.email, role |-> doc.role])
         withToken == addRefreshToken(doc, tokens.refreshToken)
     IN /\ version[f.i] < MaxVersion
        /\ users' = [users EXCEPT ![f.i].refreshTokens = Append(@, tokens.refreshToken)]
        /\ version' = [version EXCEPT ![f.i] = @ + 1]
        /\ flight' = [flight EXCEPT ![p] =
                        [f EXCEPT !.doc = {withToken}, !.pc = "lastLogin",
                                  !.res = [Response("register", 201, "User registered successfully")
                                             EXCEPT !.accessToken = {tokens.accessToken},
                                                    !.refreshToken = {tokens.refreshToken},
                                                    !.user = {PublicView(f.i, doc)}]]]
  /\ UNCHANGED streak
  /\ StepFrame

\* register: user.lastLogin = new Date(), save(), response
registerLastLogin(p) ==
  /\ flight[p].op = "register" /\ flight[p].pc = "lastLogin"
  /\ users' = [users EXCEPT ![flight[p].i].lastLogin = {now}]
  /\ flight' = [flight EXCEPT ![p] = Answer(flight[p], flight[p].res)]
  /\ UNCHANGED <<version, streak>>
  /\ StepFrame

\* updateProfile: findById
updateProfileFind(p, reqUser, body) ==
  /\ flight[p].pc = "idle"
  /\ LET i == IF reqUser = {} THEN 0 ELSE findById((CHOOSE c \in reqUser : TRUE).userId)
         f == InFlight("updateProfile", "idle", i, {}, 0, Args("", "", "", body), NoResponse)
     IN flight' = [flight EXCEPT ![p] =
          IF reqUser = {}
          THEN Answer(f, Response("updateProfile", 500, "Internal server error"))
          ELSE IF i = 0
          THEN Answer(f, Response("updateProfile", 404, "User not found"))
          ELSE [f EXCEPT !.doc = {users[i]}, !.v = version[i], !.pc = "findOne"]]
  /\ UNCHANGED <<users, version, streak>>
  /\ StepFrame

\* updateProfile: findOne({ email }) when the email is being changed, and
\* the assignments to the loaded document
updateProfileCheck(p) ==
  /\ flight[p].op = "updateProfile" /\ flight[p].pc = "findOne"
  /\ LET f == flight[p]
         doc == CHOOSE d \in f.doc : TRUE
         body == f.arg.body
         updated ==
           [doc EXCEPT
              !.email = IF body.email # {}
                        THEN toLowerCase(CHOOSE e \in body.email : TRUE) ELSE @,
              !.firstName = IF body.firstName # {}
                            THEN CHOOSE n \in body.firstName : TRUE ELSE @,
              !.lastName = IF body.lastName # {}
                           THEN CHOOSE n \in body.lastName : TRUE ELSE @]
     IN flight' = [flight EXCEPT ![p] =
          IF \E e \in body.email : e # doc.email /\ findOneByEmail(e) # 0
          THEN Answer(f, Response("updateProfile", 409, "Email is already taken"))
          ELSE [f EXCEPT !.doc = {updated}, !.pc = "save"]]
  /\ UNCHANGED <<users, version, streak>>
  /\ StepFrame

\* updateProfile: save() of the paths that were assigned; the update is
\* refused by the unique index when the email was taken since findOne
updateProfileSave(p) ==
  /\ flight[p].op = "updateProfile" /\ flight[p].pc = "save"
  /\ LET f == flight[p]
         doc == CHOOSE d \in f.doc : TRUE
         body == f.arg.body
     IN IF uniqueIndexAllows(doc.email, f.i)
        THEN /\ users' = [users EXCEPT
                            ![f.i].email = doc.email,
                            ![f.i].firstName = IF body.firstName # {} THEN doc.firstName ELSE @,
                            ![f.i].lastName = IF body.lastName # {} THEN doc.lastName ELSE @]
             /\ flight' = [flight EXCEPT ![p] =
                             Answer(f, [Response("updateProfile", 200, "Profile updated successfully")
                                          EXCEPT !.user = {PublicView(f.i, doc)}])]
        ELSE /\ users' = users
             /\ flight' = [flight EXCEPT ![p] =
                             Answer(f, Response("updateProfile", 500, "Internal server error"))]
  /\ UNCHANGED <<version, streak>>
  /\ StepFrame

\* the bodies of PUT /profile that change the email
EmailBodies == [firstName : {{OtherName}}, lastName : {{}}, email : {{"A@x"}, {"b@x"}}]

\* Concurrent registrations and profile updates: two requests in progress at
\* a time, each served one repository call at a time.
NextEmail ==
  \/ \E p \in Procs, e \in {"a@x", "B@x"} : registerFind(p, validateRegistration(e))
  \/ \E p \in Procs : registerInsert(p)
  \/ \E p \in Procs : registerAddRefreshToken(p)
  \/ \E p \in Procs : registerLastLogin(p)
  \/ \E p \in Procs, u \in Contexts, b \in EmailBodies :
       updateProfileFind(p, u, validateUpdateProfile(b))
  \/ \E p \in Procs : updateProfileCheck(p)
  \/ \E p \in Procs : updateProfileSave(p)
  \/ \E p \in Procs : recycle(p)

SpecEmail == Init /\ [][NextEmail]_vars

\* body('role').optional().isIn(['user', 'admin', 'moderator'])
validateRole(roleInput) == roleInput \in {"omitted"} \cup Roles

\* the role field of the body of POST /register: absent, each role of the
\* schema, and a value that is none of them
RoleChoices == {"omitted", "root"} \cup Roles

\* POST /register behind the validation of its email and role fields
PostRegisterAs(email, password, roleInput) ==
  IF validateRole(roleInput)
  THEN Serve(register(validateRegistration(email), password, roleInput))
  ELSE Serve(Reply(Response("register", 400, "Validation failed")))

\* the request of a registration, with the role field of its body
RegisterRequest(email, password, roleInput) ==
  [op |-> "register", email |-> email, password |-> password, token |-> NoToken,
   role |-> roleInput]

\* the refreshToken field of a request body: absent, or an entry of a list
ListedBodies == {{}} \cup {{t} : t \in AllTokens(users)}

\* Roles: two accounts register under each role, patch their profile, change
\* their password, refresh and log out; a@x also logs in and resets its
\* password, and the first record is deactivated.
NextRole ==
  /\ \/ \E e \in {"A@x", "b@x"}, r \in RoleChoices :
          /\ PostRegisterAs(e, "pw1", r)
          /\ req' = RegisterRequest(e, "pw1", r)
     \/ \E e \in Emails :
          /\ CallLogin(e, "pw1")
          /\ req' = Request("login", e, "pw1", NoToken)
     \/ \E b \in ListedBodies :
          /\ CallRefreshToken(b)
          /\ req' = Request("refreshToken", "", "", NoToken)
     \/ \E u \in Contexts :
          /\ PutProfile(u, [firstName |-> {OtherName}, lastName |-> {}, email |-> {}])
          /\ req' = Request("updateProfile", "", "", NoToken)
     \/ \E u \in Contexts :
          /\ CallChangePassword(u, "pw1", "pw1")
          /\ req' = Request("changePassword", "", "pw1", NoToken)
     \/ \E e \in Emails :
          /\ CallRequestPasswordReset(e)
          /\ req' = Request("requestPasswordReset", e, "", NoToken)
     \/ \E x \in ResetInputs :
          /\ CallResetPassword(x, "pw1")
          /\ req' = Request("resetPassword", "", "pw1", NoToken)
     \/ \E u \in Contexts :
          /\ CallLogout(u, {})
          /\ req' = Request("logout", "", "", NoToken)
     \/ \E i \in Ids :
          /\ setActive(i, FALSE)
          /\ req' = Request("setActive", "", "", NoToken)
  /\ UNCHANGED <<revoked, prev, streak, flight, version>>

SpecRole == Init /\ [][NextRole]_vars

(* ------------------------------- claims ------------------------------- *)
\* refresh() with token t succeeds in the current state
Accepted(t) == refreshToken({t}).res.status = 200

\* t is signed in the refresh domain and has not run out
RefreshDomainValid(t) == t.wf /\ t.key = JWT_REFRESH_SECRET /\ t.exp > now

\* the record whose list holds t is active
ListedActive(t) ==
  \E i \in 1..Len(users) : t \in TokensOf(users[i]) /\ users[i].isActive

\* C1: a refresh call returns an access token (status 200) only when its
\* token verifies in the refresh domain at the time of the call, is an entry
\* of the refresh-token list of a stored record, and that record is active;
\* every other call returns no access token.
C1_RefreshOnlyIfValid ==
  \A b \in BodyTokens :
    LET r == refreshToken(b).res
    IN /\ (r.status = 200) = (r.accessToken # {})
       /\ r.status = 200 =>
            /\ b # {}
            /\ \A t \in b : RefreshDomainValid(t) /\ ListedActive(t)

\* a refresh call has succeeded while some token that verifies is refused
C1_Witness ==
  /\ res.op = "refreshToken" /\ res.status = 200 /\ res.accessToken # {}
  /\ \E t \in RefreshTokens : RefreshDomainValid(t) /\ ~Accepted(t)

\* the identity context of record i
IdentityOf(i) == {[userId |-> i]}

\* no list of the collection us holds t
Unlisted(us, t) == \A j \in 1..Len(us) : t \notin TokensOf(us[j])

\* the record that t names is there and active
OwnerActive(t) == t.userId \in 1..Len(users) /\ users[t.userId].isActive

RevokingRemoves(i, t) ==
  /\ Unlisted(logout(IdentityOf(i), {t}).users, t)
  /\ Unlisted(logout(IdentityOf(i), {}).users, t)
  /\ \A c \in Passwords, p \in Passwords :
       LET o == changePassword(IdentityOf(i), c, p)
       IN o.res.status = 200 => Unlisted(o.users, t)
  /\ \A x \in ResetInputs, p \in Passwords :
       LET o == resetPassword(x, p)
       IN (o.res.status = 200 /\ findOneByResetToken(x) = i) => Unlisted(o.users, t)

\* acceptance of t ends with this step only for one of the known reasons, and
\* a revoked t comes back only by being issued again
EndsAndReturns(t) ==
  /\ (Accepted(t) /\ ~Accepted(t)')
       => \/ t.exp <= now'
          \/ t \in revoked'
          \/ ~OwnerActive(t)'
          \/ /\ res'.op = "login" /\ res'.status = 200
             /\ Len(users[t.userId].refreshTokens) = MAX_REFRESH_TOKENS
             /\ users[t.userId].refreshTokens[1] = t
  /\ (t \in revoked /\ Unlisted(users, t) /\ ~Unlisted(users', t))
       => /\ res'.op \in {"login", "register"}
          /\ res'.refreshToken = {t}
          /\ t.iat = now

Locked(user) == \E t \in user.lockUntil : now < t

LockedResponse ==
  Response("login", 423,
           "Account is temporarily locked due to too many failed login attempts")

\* the step that makes the row of wrong-password logins five long, on an
\* active record, sets lock-until to LOCK_TIME after the call
FifthFailureLocks ==
  \A e \in Emails :
    (streak[e] = MAX_LOGIN_ATTEMPTS - 1 /\ streak'[e] = MAX_LOGIN_ATTEMPTS
       /\ users[findOneByEmail(e)].isActive)
    => /\ users'[findOneByEmail(e)].lockUntil = {now + LOCK_TIME}
       /\ users'[findOneByEmail(e)].loginAttempts = MAX_LOGIN_ATTEMPTS

C4_UnlockedCounterBelowFive ==
  \A i \in 1..Len(users) :
    /\ ~Locked(users[i]) =>
         (users[i].loginAttempts >= 0 /\ users[i].loginAttempts < MAX_LOGIN_ATTEMPTS)
    /\ Locked(users[i]) => \A t \in users[i].lockUntil : t > now

\* the lock of the record has elapsed: lock-until is set and not in the future
LockElapsed(user) == user.lockUntil # {} /\ \A t \in user.lockUntil : t <= now

\* C5: once the lock-until of a locked, active record has elapsed, the next
\* login with the right password succeeds and leaves the counter at 0 and
\* lock-until unset.
C5_LoginAfterLockElapsed ==
  /\ \A i \in 1..Len(users), p \in Passwords :
       (LockElapsed(users[i]) /\ users[i].isActive
          /\ users[i].password = <<"bcrypt", p>>)
       => /\ login(users[i].email, p).res.status = 200
          /\ login(users[i].email, p).users[i].loginAttempts = 0
          /\ login(users[i].email, p).users[i].lockUntil = {}
  /\ \A i \in 1..Len(prev) :
       (req.op = "login" /\ req.email = prev[i].email
          /\ prev[i].lockUntil # {} /\ (\A t \in prev[i].lockUntil : t <= now)
          /\ prev[i].isActive /\ prev[i].password = <<"bcrypt", req.password>>)
       => /\ res.status = 200
          /\ users[i].loginAttempts = 0
          /\ users[i].lockUntil = {}

\* a login with the right password has just succeeded on a record whose lock
\* had elapsed
C5_Witness ==
  /\ req.op = "login" /\ res.status = 200
  /\ \E i \in 1..Len(prev) :
       /\ prev[i].email = req.email
       /\ prev[i].loginAttempts >= MAX_LOGIN_ATTEMPTS
       /\ prev[i].lockUntil = {LOCK_TIME} /\ now >= LOCK_TIME
       /\ users[i].loginAttempts = 0 /\ users[i].lockUntil = {}


\* C6: resetPassword succeeds exactly when the stored reset digest of some
\* record equals the digest of the supplied token and the stored expiry is in
\* the future: the plaintext token of requestPasswordReset is accepted within
\* RESET_TIME and rejected after it.
C6_ResetAcceptsDigestOfToken ==
  \A x \in ResetInputs, p \in Passwords :
    (resetPassword(x, p).res.status = 200)
    <=> \E i \in 1..Len(users) :
          /\ users[i].passwordResetToken = {[n |-> x.n, h |-> x.h + 1]}
          /\ \E t \in users[i].passwordResetExpires : t > now

\* resetPassword answers 400 to the token and writes nothing
RejectedReset(x) ==
  \A p \in Passwords :
    /\ resetPassword(x, p).res.status = 400
    /\ resetPassword(x, p).users = users

\* a token that is rejected becomes accepted only by a requestPasswordReset
AcceptedOnlyByNewRequest ==
  \A x \in ResetInputs :
    (RejectedReset(x) /\ ~RejectedReset(x)') => req'.op = "requestPasswordReset"

\* C7: a reset token is single-use: the token of a successful resetPassword is
\* rejected by every later resetPassword call, until a new
\* requestPasswordReset.
C7_ResetTokenSingleUse ==
  /\ []((req.op = "resetPassword" /\ res.status = 200) => RejectedReset(req.token))
  /\ [][(users' = users /\ now' = now) \/ AcceptedOnlyByNewRequest]_vars

\* a resetPassword with the stored value has just succeeded, and the same
\* value is now rejected
C7_Witness ==
  /\ req.op = "resetPassword" /\ res.status = 200
  /\ \E i \in 1..Len(prev) :
       /\ prev[i].passwordResetToken = {req.token}
       /\ users[i].passwordResetToken = {}
  /\ RejectedReset(req.token)

\* the record that the last resetPassword call has reset
WasReset(i) ==
  /\ req.op = "resetPassword" /\ res.status = 200
  /\ i \in 1..Len(prev) /\ req.token \in prev[i].passwordResetToken

ResetState(i) ==
  /\ users[i].password = <<"bcrypt", req.password>>
  /\ users[i].loginAttempts = 0
  /\ users[i].lockUntil = {}
  /\ users[i].refreshTokens = <<>>

OldPasswordFails(i) ==
  \A q \in Passwords :
    (prev[i].password = <<"bcrypt", q>> /\ q # req.password)
    => login(users[i].email, q).res.status # 200

\* C8 as stated: after a successful resetPassword the record has the digest
\* of the new password, counter 0, no lock-until and an empty list; a login
\* with the new password succeeds at once, one with the old password fails.
C8_LoginSucceedsAfterReset ==
  \A i \in 1..Len(users) :
    WasReset(i) =>
      /\ ResetState(i)
      /\ login(users[i].email, req.password).res.status = 200
      /\ OldPasswordFails(i)

\* C8, amended: as C8, the login with the new password succeeding on an
\* active record; on a deactivated record it is answered 403.
C8_LoginSucceedsAfterResetIfActive ==
  \A i \in 1..Len(users) :
    WasReset(i) =>
      /\ ResetState(i)
      /\ login(users[i].email, req.password).res.status
           = (IF users[i].isActive THEN 200 ELSE 403)
      /\ OldPasswordFails(i)

\* a Locked, active record has just been reset to another password
C8_Witness ==
  \E i \in 1..Len(users) :
    /\ WasReset(i)
    /\ \E t \in prev[i].lockUntil : t > now
    /\ prev[i].refreshTokens # <<>>
    /\ prev[i].password # <<"bcrypt", req.password>>
    /\ users[i].isActive
    /\ login(users[i].email, req.password).res.status = 200


\* the decision carries a statement with this effect
Effect(d, effect) == \E pd \in d.policyDocument : pd.Statement[1].Effect = effect

\* the event presents token t: in the first entry of the identity source, or,
\* the identity source being absent or empty, in the legacy field
Presents(ev, t) ==
  \/ \E l \in ev.identitySource : Len(l) > 0 /\ l[1].tok = {t}
  \/ /\ ev.identitySource \in {{}, {<<>>}}
     /\ \E h \in ev.authorizationToken : h.tok = {t}

AccessDomainValid(t) == t.wf /\ t.key = JWT_SECRET /\ now < t.exp

\* C9: the authorizer allows only an event whose token passes the access
\* verification (signature and expiry), and for every such token the codec
\* issued it allows, with the subject as principal and a context that is
\* exactly the user id, email and role of the token.
C9_AllowOnlyVerifiedToken ==
  \A ev \in EventInputs :
    /\ Effect(handler(ev), "Allow")
         => \E t \in TokenInputs : Presents(ev, t) /\ AccessDomainValid(t)
    /\ \A t \in AccessTokens :
         (Presents(ev, t) /\ now < t.exp)
         => /\ Effect(handler(ev), "Allow")
            /\ handler(ev).principalId = t.userId
            /\ handler(ev).context =
                 {[userId |-> t.userId, email |-> t.email, role |-> t.role]}

\* the authorizer has allowed a token of a registered record
C9_Witness ==
  /\ Effect(decision, "Allow")
  /\ \E i \in 1..Len(users) :
       /\ decision.principalId = i
       /\ decision.context =
            {[userId |-> i, email |-> users[i].email, role |-> users[i].role]}

\* the event carries no credential: the identity source is absent or empty
\* and there is no legacy field
NoCredential(ev) == ev.identitySource \in {{}, {<<>>}} /\ ev.authorizationToken = {}

\* C10: for an event without credential the decision is Deny on the protected
\* resource, whether the resource arrives as routeArn or as methodArn.
C10_NoCredentialDenied ==
  \A ev \in EventInputs :
    NoCredential(ev) =>
      \E pd \in handler(ev).policyDocument :
        /\ pd.Statement[1].Effect = "Deny"
        /\ pd.Statement[1].Resource \in ev.routeArn \cup ev.methodArn


\* the one decision of every failure: principal 'user', a Deny statement on
\* the resource of the event, no context
DenyRecord(routeArn, methodArn) ==
  [principalId |-> 0,
   policyDocument |->
     {[Version |-> "2012-10-17",
       Statement |-> <<[Action |-> "execute-api:Invoke", Effect |-> "Deny",
                        Resource |-> CHOOSE r \in (IF routeArn # {} THEN routeArn
                                                   ELSE methodArn) : TRUE]>>]},
   context |-> {}]

\* the token that the event presents: that of the first entry of the identity
\* source, or, the identity source being absent or empty, of the legacy field
PresentedBy(ev) ==
  IF \E l \in ev.identitySource : Len(l) > 0
  THEN UNION {l[1].tok : l \in ev.identitySource}
  ELSE UNION {h.tok : h \in ev.authorizationToken}

\* C11: for an expired token, a malformed token and a token with a wrong
\* signature the authorizer returns one and the same decision, which depends
\* on the resource of the event only: principal 'user', one Deny statement,
\* no identity context and nothing that tells the cause.
C11_FailuresIndistinguishable ==
  \A ev \in EventInputs :
    \A t \in PresentedBy(ev) :
      ~AccessDomainValid(t) => handler(ev) = DenyRecord(ev.routeArn, ev.methodArn)

\* the authorizer has just denied an expired token of the access domain
C11_Witness ==
  /\ req.op = "authorize"
  /\ \E t \in req.token.token : t.wf /\ t.key = JWT_SECRET /\ t.exp <= now
  /\ decision = DenyRecord(req.token.routeArn, req.token.methodArn)


\* the header is not the empty string
NonEmpty(h) == h.bearer \/ h.tok # {}

\* the credential as the extraction policy describes it: the first non-empty
\* entry of the identity source, or the legacy field when there is none, the
\* "Bearer " prefix stripped
PolicyCredential(ev) ==
  LET l == IF ev.identitySource = {} THEN <<>> ELSE CHOOSE x \in ev.identitySource : TRUE
      filled == {k \in 1..Len(l) : NonEmpty(l[k])}
  IN IF filled # {}
     THEN l[CHOOSE k \in filled : \A j \in filled : k <= j].tok
     ELSE UNION {h.tok : h \in ev.authorizationToken}

\* C12: the credential the authorizer evaluates is the first non-empty entry
\* of the identity source, or the legacy field when the identity source has no
\* non-empty entry, without its "Bearer " prefix; a valid token in the legacy
\* field is allowed even when the entries before it are empty.
C12_FirstNonEmptySource ==
  \A ev \in EventInputs :
    /\ extractToken(ev) = PolicyCredential(ev)
    /\ \A t \in PolicyCredential(ev) :
         AccessDomainValid(t) => Effect(handler(ev), "Allow")


\* C13: the signing domains are separate: a refresh token of the codec never
\* passes the access verification, and the authorizer denies it; an access
\* token of the codec never passes the refresh verification, and refresh()
\* answers it 401.
C13_DomainsSeparate ==
  /\ \A t \in RefreshTokens : ~verifyAccessToken(t)
  /\ \A ev \in EventInputs :
       \A t \in PresentedBy(ev) \cap RefreshTokens :
         handler(ev) = DenyRecord(ev.routeArn, ev.methodArn)
  /\ \A t \in AccessTokens :
       /\ ~verifyRefreshToken(t)
       /\ refreshToken({t}) =
            Reply(Response("refreshToken", 401, "Invalid refresh token"))

\* the authorizer has just denied an unexpired refresh token that a record
\* holds in its list
C13_Witness ==
  /\ req.op = "authorize"
  /\ \E t \in req.token.token :
       /\ t \in AllTokens(users)
       /\ t.key = JWT_REFRESH_SECRET /\ now < t.exp
  /\ decision = DenyRecord(req.token.routeArn, req.token.methodArn)


\* C14: a correctly signed, unexpired token whose issuer or audience is not
\* the one the codec embeds is rejected by the access verification, by the
\* refresh verification and by the authorizer.
C14_IssuerAudienceChecked ==
  \A t \in ForeignTokens :
    now < t.exp =>
      /\ ~verifyAccessToken(t)
      /\ ~verifyRefreshToken(t)
      /\ \A arn \in Arns :
           ~Effect(handler(Event({<<Header(TRUE, {t})>>}, {}, arn[1], arn[2])), "Allow")


\* C15: in every reachable state the refresh-token list of each record holds
\* at most 5 entries.
C15_ListAtMostFive ==
  \A i \in 1..Len(users) : Len(users[i].refreshTokens) <= 5

\* a successful login has just left the list of a record full
C15_Witness ==
  /\ res.op = "login" /\ res.status = 200
  /\ \E i \in 1..Len(users) :
       /\ Len(users[i].refreshTokens) = 5
       /\ res.refreshToken = {users[i].refreshTokens[5]}


\* the last request was a successful login of record i that found its list full
LoginOnFullList(i) ==
  /\ req.op = "login" /\ res.status = 200
  /\ i \in 1..Len(prev) /\ prev[i].email = req.email
  /\ Len(prev[i].refreshTokens) = MAX_REFRESH_TOKENS

\* C16: eviction is first in, first out: a successful login on a full list
\* (the sixth of six logins in sequence) leaves the 5 most recently issued
\* tokens in issue order, each of them accepted by refresh(), and the token
\* issued first is rejected by refresh().
C16_EvictionFirstInFirstOut ==
  \A i \in 1..Len(users) :
    LoginOnFullList(i) =>
      /\ users[i].refreshTokens =
           SubSeq(prev[i].refreshTokens, 2, MAX_REFRESH_TOKENS) \o
             <<CHOOSE t \in res.refreshToken : TRUE>>
      /\ \A k \in 1..Len(users[i].refreshTokens) : Accepted(users[i].refreshTokens[k])
      /\ ~Accepted(prev[i].refreshTokens[1])


\* a refresh step leaves the collection, and with it the acceptance of every
\* refresh token, as it was
RefreshKeepsAcceptance ==
  res'.op = "refreshToken" =>
    /\ users' = users /\ now' = now
    /\ \A t \in AllTokens(users) : Accepted(t)' = Accepted(t)

\* C17: a refresh call, successful or not, writes no record; a successful one
\* returns a new access token and no refresh token, and the token it was
\* given is accepted again by the refresh calls that follow.
C17_RefreshWritesNothing ==
  /\ [](\A b \in BodyTokens :
          LET o == refreshToken(b)
          IN /\ o.users = users
             /\ o.res.refreshToken = {}
             /\ o.res.status = 200 =>
                  /\ o.res.accessToken # {}
                  /\ \A t \in o.res.accessToken : t.key = JWT_SECRET /\ t.iat = now)
  /\ [][RefreshKeepsAcceptance]_vars

\* a refresh call has just returned an access token, and a token of the list
\* is still accepted
C17_Witness ==
  /\ res.op = "refreshToken" /\ res.status = 200
  /\ res.accessToken # {} /\ res.refreshToken = {}
  /\ \E t \in AllTokens(users) : Accepted(t)


\* the last request was a logout served for record i
LoggedOut(i) ==
  /\ req.op = "logout" /\ res.status = 200
  /\ i \in 1..Len(prev) /\ prev[i].email = req.email

\* the list without its first entry equal to t
RemoveOne(list, t) ==
  LET at == {k \in 1..Len(list) : list[k] = t}
  IN IF at = {} THEN list
     ELSE LET k == CHOOSE x \in at : \A y \in at : x <= y
          IN SubSeq(list, 1, k - 1) \o SubSeq(list, k + 1, Len(list))

\* the entries of a list
Entries(list) == {list[k] : k \in 1..Len(list)}

\* C18: a logout that names a token removes from the list of the caller the
\* one entry equal to it and leaves the other entries, in order, and the
\* other records as they were, so that the tokens of the other devices are
\* still accepted by refresh(); a logout that names none empties the list.
C18_LogoutRemovesOneEntry ==
  \A i \in 1..Len(prev) :
    LoggedOut(i) =>
      /\ Len(users) = Len(prev)
      /\ \A j \in 1..Len(prev) : j # i => users[j] = prev[j]
      /\ users[i] =
           [prev[i] EXCEPT !.refreshTokens =
              IF req.token = {} THEN <<>> ELSE RemoveOne(@, CHOOSE t \in req.token : TRUE)]
      /\ \A t \in req.token :
           /\ \A other \in Entries(RemoveOne(prev[i].refreshTokens, t)) : Accepted(other)
           /\ \A j \in 1..Len(prev) :
                j # i => \A other \in Entries(prev[j].refreshTokens) : Accepted(other)


\* the same logout call is served twice in a row
LogoutRepeated ==
  /\ req.op = "logout" /\ res.status = 200
  /\ req'.op = "logout" /\ req'.email = req.email /\ req'.token = req.token

\* C19: logout is idempotent: a logout that names a token which is not in the
\* list of the caller (removed before, evicted, or of another account)
\* answers success and writes nothing, and a logout call made a second time
\* leaves the state that the first one left.
C19_LogoutIdempotent ==
  /\ [](\A i \in 1..Len(users), b \in DeviceBodies :
          LET o == logout({[userId |-> i]}, b)
          IN /\ o.res = Response("logout", 200, "Logout successful")
             /\ (b # {} /\ \A t \in b : t \notin Entries(users[i].refreshTokens))
                  => o.users = users)
  /\ [](\A i \in 1..Len(prev) :
          (LoggedOut(i) /\ req.token # {}
             /\ \A t \in req.token : t \notin Entries(prev[i].refreshTokens))
          => users = prev)
  /\ [][LogoutRepeated => (users' = users /\ res' = res)]_vars

\* a logout naming a token of the list of another account has just succeeded
\* and has written nothing
C19_Witness ==
  /\ req.op = "logout" /\ res.status = 200 /\ users = prev
  /\ \E t \in req.token : \E j \in 1..Len(users) :
       users[j].email # req.email /\ t \in Entries(users[j].refreshTokens)

\* the next step serves a changePassword whose currentPassword is not the
\* password of the caller's record
WrongCurrentPassword ==
  /\ req'.op = "changePassword"
  /\ \E c \in req'.token.reqUser :
       /\ c.userId \in 1..Len(users)
       /\ users[c.userId].password # <<"bcrypt", req'.password>>

\* C20: a changePassword whose currentPassword does not match fails with
\* "Current password is incorrect" and writes nothing: every record (password
\* digest, refresh-token list, attempt counter, lock-until) is as before the
\* call, and every listed refresh token accepted before it is accepted after.
C20_WrongCurrentPasswordWritesNothing ==
  [][WrongCurrentPassword =>
       /\ res' = Response("changePassword", 400, "Current password is incorrect")
       /\ \A i \in 1..Len(users) :
            /\ users'[i].password = users[i].password
            /\ users'[i].refreshTokens = users[i].refreshTokens
            /\ users'[i].loginAttempts = users[i].loginAttempts
            /\ users'[i].lockUntil = users[i].lockUntil
       /\ users' = users
       /\ \A t \in AllTokens(users) : Accepted(t) => Accepted(t)']_vars

\* a changePassword with a wrong currentPassword was served for a record that
\* holds accepted refresh tokens, failed logins and a lock-until
C20_Witness ==
  /\ req.op = "changePassword" /\ res.status = 400 /\ users = prev
  /\ \E c \in req.token.reqUser :
       /\ c.userId \in 1..Len(users)
       /\ users[c.userId].password # <<"bcrypt", req.password>>
       /\ users[c.userId].loginAttempts > 0
       /\ users[c.userId].lockUntil # {}
       /\ users[c.userId].refreshTokens # <<>>
       /\ \A t \in TokensOf(users[c.userId]) : Accepted(t)

\* C21: the decision on an access token depends on the token and the clock
\* only: a token issued to a record yields Allow while the clock is before
\* its expiry and Deny from the expiry on, whatever the state of the record
\* (logged out, password changed or reset, deactivated), and no step that
\* leaves the clock alone changes the decision on any token.
C21_DecisionIgnoresRepository ==
  /\ [](\A t \in IssuedAccessTokens :
          Effect(handler(BearerEvent(t)), IF now < t.exp THEN "Allow" ELSE "Deny"))
  /\ [][now' = now =>
          \A t \in IssuedAccessTokens :
            handler(BearerEvent(t))' = handler(BearerEvent(t))]_vars

\* the authorizer has just allowed the access token of a record that is
\* deactivated and whose refresh tokens have all been revoked
C21_Witness ==
  /\ req.op = "authorize" /\ Effect(decision, "Allow")
  /\ revoked # {}
  /\ \E i \in 1..Len(users) :
       /\ decision.principalId = i
       /\ users[i].refreshTokens = <<>>
       /\ ~users[i].isActive

\* the one answer of requestPasswordReset
GenericResetAnswer ==
  Response("requestPasswordReset", 200,
           "If the email exists, a password reset link has been sent")

\* record after is record before but for the reset digest and its expiry,
\* which are a digest and the instant RESET_TIME from now
OnlyResetFieldsWritten(before, after) ==
  /\ [after EXCEPT !.passwordResetToken = before.passwordResetToken,
                   !.passwordResetExpires = before.passwordResetExpires] = before
  /\ after.passwordResetExpires = {now + RESET_TIME}
  /\ \E d \in after.passwordResetToken : d.h = 1

\* C22: requestPasswordReset gives the same answer for an email with a
\* record and for one without; without a record nothing is written, with a
\* record only its reset digest and an expiry 10 minutes from now are.
C22_ResetRequestUniform ==
  /\ \A e \in Accounts :
       LET o == requestPasswordReset(e)
       IN /\ o.res = GenericResetAnswer
          /\ Len(o.users) = Len(users)
          /\ \A i \in 1..Len(users) :
               IF users[i].email = e
               THEN OnlyResetFieldsWritten(users[i], o.users[i])
               ELSE o.users[i] = users[i]
  /\ req.op = "requestPasswordReset" =>
       /\ res = GenericResetAnswer
       /\ Len(users) = Len(prev)
       /\ \A i \in 1..Len(prev) :
            IF prev[i].email = req.email
            THEN OnlyResetFieldsWritten(prev[i], users[i])
            ELSE users[i] = prev[i]

\* a reset was requested for a record that is locked and holds refresh
\* tokens, while another email has no record
C22_Witness ==
  /\ req.op = "requestPasswordReset" /\ res = GenericResetAnswer
  /\ \E e \in Accounts : findOneByEmail(e) = 0
  /\ \E i \in 1..Len(users) :
       /\ users[i].email = req.email
       /\ users[i].passwordResetExpires = {now + RESET_TIME}
       /\ users[i].passwordResetToken # prev[i].passwordResetToken
       /\ users[i].lockUntil # {} /\ users[i].refreshTokens # <<>>

\* the two emails are equal when letter case is ignored
SameIgnoringCase(a, b) == toLowerCase(a) = toLowerCase(b)

\* a record holds the email, letter case ignored
HeldIgnoringCase(us, email) ==
  \E i \in 1..Len(us) : SameIgnoringCase(us[i].email, email)

DuplicateEmail == Response("register", 409, "User with this email already exists")

\* C23: a registration whose email equals, letter case ignored, the email of
\* a record is answered 409 "User with this email already exists" with no
\* tokens and no user view, and the collection (the number of records and
\* every field of every record) is as before the call.
C23_DuplicateEmailIgnoringCase ==
  /\ \A e \in RawEmails, p \in Passwords, r \in RoleInputs :
       HeldIgnoringCase(users, e) =>
         LET o == register(validateRegistration(e), p, r)
         IN o.res = DuplicateEmail /\ o.users = users
  /\ (req.op = "register" /\ HeldIgnoringCase(prev, req.email)) =>
       (res = DuplicateEmail /\ users = prev)

\* a registration was refused whose email differs in letter case from that of
\* a record with failed logins and a refresh token
C23_Witness ==
  /\ req.op = "register" /\ res = DuplicateEmail /\ users = prev
  /\ \E i \in 1..Len(users) :
       /\ users[i].email # req.email
       /\ SameIgnoringCase(users[i].email, req.email)
       /\ users[i].loginAttempts > 0
       /\ users[i].refreshTokens # <<>>

\* the outcome is a failure that wrote nothing and carries no user view and
\* no token
RefusedWithoutEffect(o) ==
  /\ o.res.status >= 400
  /\ o.users = users
  /\ o.res.user = {} /\ o.res.accessToken = {} /\ o.res.refreshToken = {}

ProtectedOps == {"getProfile", "updateProfile", "changePassword", "logout"}

\* C25: getProfile, updateProfile, changePassword and logout, called without
\* identity context, fail, leave every record as it was and return no user
\* data, whatever the body of the request.
C25_ProtectedNeedIdentity ==
  /\ RefusedWithoutEffect(getProfile({}))
  /\ \A b \in ProfileBodies : RefusedWithoutEffect(updateProfile({}, validateUpdateProfile(b)))
  /\ \A c \in Passwords, p \in Passwords : RefusedWithoutEffect(changePassword({}, c, p))
  /\ \A b \in DeviceBodies : RefusedWithoutEffect(logout({}, b))
  /\ (req.op \in ProtectedOps /\ req.token.reqUser = {}) =>
       /\ res.status >= 400 /\ users = prev
       /\ res.user = {} /\ res.accessToken = {} /\ res.refreshToken = {}

\* a profile update that names a new email and a new first name arrived
\* without identity context while records exist, and was refused
C25_Witness ==
  /\ req.op = "updateProfile" /\ req.token.reqUser = {}
  /\ req.token.body.email # {} /\ req.token.body.firstName # {}
  /\ res.status = 500 /\ users = prev /\ Len(users) = 2

\* C30: the refresh token that a successful register or login returns differs
\* from every refresh token issued before and still listed, whatever the time
\* between the calls, and no refresh-token list holds two equal entries.
C30_RefreshTokensDistinct ==
  /\ (req.op \in {"register", "login"} /\ res.refreshToken # {}) =>
       \A t \in res.refreshToken : t \notin AllTokens(prev)
  /\ \A i \in 1..Len(users) :
       \A k, l \in 1..Len(users[i].refreshTokens) :
         k # l => users[i].refreshTokens[k] # users[i].refreshTokens[l]

\* the operations whose repository failure must surface as transient
OutageOps == {"login", "refreshToken", "logout", "changePassword", "resetPassword"}

\* C29: a login, refresh, logout, changePassword or resetPassword during
\* which the repository call fails is answered with a 5xx status, never with
\* the 4xx of an authentication failure; the refresh in question presents a
\* token that verifies, so that nothing but the repository fails.
C29_StoreFailureIsTransient ==
  (/\ req.op \in OutageOps
   /\ req.token.storeDown
   /\ req.op = "refreshToken" =>
        (req.token.body # {} /\ \A t \in req.token.body : verifyRefreshToken(t)))
  => res.status >= 500

\* C27: under any interleaving of logins, the failed password checks made on
\* an account since its counter was last reset number at most 5, and once
\* no request is in progress the attempt counter equals their number: each
\* failed check has raised it by exactly one.
C27_NoAttemptCounterRace ==
  \A e \in Emails :
    /\ streak[e] <= MAX_LOGIN_ATTEMPTS
    /\ \A i \in 1..Len(users) :
         (users[i].email = e /\ Running = {}) => users[i].loginAttempts = streak[e]

\* the request in slot p is a login that has answered
LoginDone(p) == flight[p].op = "login" /\ flight[p].pc = "done"

\* the logins in slots p and q ran concurrently: both have answered, and both
\* loaded the record before either wrote its list
Overlapped(p, q) ==
  /\ p # q /\ LoginDone(p) /\ LoginDone(q)
  /\ flight[p].i # 0 /\ flight[p].i = flight[q].i
  /\ flight[p].doc # {} /\ flight[q].doc # {}
  /\ flight[p].v = flight[q].v

DigestReplaced(p) ==
  /\ flight[p].op \in {"changePassword", "resetPassword"}
  /\ \/ flight[p].pc = "clearAll"
     \/ flight[p].pc = "done" /\ flight[p].res.status \in {200, 500} /\ flight[p].doc # {}
  /\ users[flight[p].i].password = bcryptHash(flight[p].arg.newPassword)

\* C28: in no state does a record hold the digest of the new password of a
\* changePassword or resetPassword while a refresh token that was in its
\* list when the change began is still listed and accepted by refresh().
C28_PasswordChangeAllOrNothing ==
  \A p \in Procs :
    DigestReplaced(p) =>
      \A d \in flight[p].doc : \A t \in TokensOf(d) :
        ~(t \in TokensOf(users[flight[p].i]) /\ Accepted(t))

\* no two records hold the same email
EmailsUnique ==
  \A i, j \in 1..Len(users) : i # j => users[i].email # users[j].email

\* the updateProfile in slot p answers in this step
UpdateAnswers(p) ==
  /\ flight[p].op = "updateProfile" /\ flight[p].pc # "done"
  /\ flight'[p].pc = "done"

\* another record than that of the request in slot p holds its target email
TargetHeldByAnother(p) ==
  \E e \in flight[p].arg.body.email :
    \E j \in 1..Len(users) : j # flight[p].i /\ users[j].email = e

\* C24: in every reachable state of interleaved register and updateProfile
\* calls no two records hold the same email, and an updateProfile that answers
\* while another record holds its target email answers 409 "Email is already
\* taken" and leaves every record as it was.
C24_EmailUniqueOrEmailTaken ==
  /\ []EmailsUnique
  /\ [][\A p \in Procs :
          UpdateAnswers(p) /\ TargetHeldByAnother(p) =>
            /\ flight'[p].res.status = 409
            /\ flight'[p].res.message = "Email is already taken"
            /\ users' = users]_vars

\* the role a registration stores for the role field of its body
RoleSupplied(roleInput) == IF roleInput = "omitted" THEN "user" ELSE roleInput

\* this step is a registration that created a record
Registers ==
  /\ req'.op = "register" /\ res'.op = "register" /\ res'.status = 201

\* C31: a registration stores the role its caller supplied (user when the
\* field is omitted), no step changes the role of a record afterwards, and
\* every token that register, login and refresh return carries the role the
\* record holds when it is issued.
C31_RoleFixedAtRegistration ==
  /\ [][Registers =>
          /\ Len(users') = Len(users) + 1
          /\ req'.role \in {"omitted"} \cup Roles
          /\ users'[Len(users')].role = RoleSupplied(req'.role)]_vars
  /\ [][\A i \in 1..Len(users) : users'[i].role = users[i].role]_vars
  /\ [](res.op \in {"register", "login", "refreshToken"} =>
          \A t \in res.accessToken \cup res.refreshToken :
            /\ t.userId \in 1..Len(users)
            /\ t.role = users[t.userId].role)

\* an account registered as admin by its caller has refreshed: the access
\* token returned carries the role admin, after its profile was patched
C31_Witness ==
  /\ res.op = "refreshToken" /\ res.status = 200
  /\ \E t \in res.accessToken :
       /\ t.role = "admin"
       /\ users[t.userId].role = "admin"
       /\ users[t.userId].firstName = OtherName

====
